---- MODULE Spec2Model ----
(***************************************************************************)
(* smartprompt: the tool registry, the tool dispatch loop (ToolRunner) and *)
(* the model orchestrator (ModelClient), as a state machine.               *)
(*                                                                         *)
(* A Python string is a sequence of text fragments (an f-string is the     *)
(* concatenation of its pieces), so that "the message mentions the name"   *)
(* is a statement about the fragments.  A Python value is a record with a  *)
(* type tag; every value has the same fields so that any two compare.      *)
(***************************************************************************)
EXTENDS Integers, Sequences, FiniteSets, TLC

\* The longest tool-call list the transport returns in one response.
MaxBatch == 2

(***************************************************************************)
(* Python values                                                           *)
(***************************************************************************)
StrV(frags) == [t |-> "str", s |-> frags, n |-> 0, b |-> FALSE]
IntV(k) == [t |-> "int", s |-> <<>>, n |-> k, b |-> FALSE]
BoolV(x) == [t |-> "bool", s |-> <<>>, n |-> 0, b |-> x]
NoneV == [t |-> "none", s |-> <<>>, n |-> 0, b |-> FALSE]
\* An opaque object handed back by the transport (a parsed object, a stream).
ObjV(tag) == [t |-> "obj", s |-> <<tag>>, n |-> 0, b |-> FALSE]

\* str(x)
Str(x) ==
    CASE x.t = "str" -> x
      [] x.t = "int" -> StrV(<<ToString(x.n)>>)
      [] x.t = "bool" -> StrV(<<IF x.b THEN "True" ELSE "False">>)
      [] x.t = "none" -> StrV(<<"None">>)
      [] OTHER -> StrV(<<"<">> \o x.s \o <<" object>">>)

\* An exception: its class and its message, str(e) being the message.
Exc(type, msg) == [type |-> type, msg |-> msg]
NoExc == Exc("", <<>>)

\* The classes derived from Exception among those the program can raise.
ExceptionClasses == {"ValueError", "ValidationError", "TypeError", "JSONDecodeError"}

(***************************************************************************)
(* json.loads on a text given as its tokens.  A token is a value (a string *)
(* or a number) or a punctuation mark.  A mapping is the sequence of its   *)
(* items, in insertion order.                                              *)
(***************************************************************************)
Punct(c) == [t |-> c, s |-> <<>>, n |-> 0, b |-> FALSE]
LBrace == Punct("{")
RBrace == Punct("}")
Colon == Punct(":")
Comma == Punct(",")

Item(k, v) == [k |-> k, v |-> v]
IsScalarTok(tok) == tok.t \in {"str", "int"}

\* The members of an object after "{": key ":" value ("," key ":" value)* "}".
\* The result is [ok, items]; ok is FALSE where the decoder raises.
RECURSIVE JsonMembers(_, _)
JsonMembers(toks, acc) ==
    IF Len(toks) < 4 THEN [ok |-> FALSE, items |-> <<>>]
    ELSE IF ~(toks[1].t = "str" /\ toks[2] = Colon /\ IsScalarTok(toks[3]))
    THEN [ok |-> FALSE, items |-> <<>>]
    ELSE LET acc2 == Append(acc, Item(toks[1].s, toks[3]))
         IN  IF toks[4] = RBrace
             THEN [ok |-> Len(toks) = 4, items |-> IF Len(toks) = 4 THEN acc2 ELSE <<>>]
             ELSE IF toks[4] = Comma
             THEN JsonMembers(SubSeq(toks, 5, Len(toks)), acc2)
             ELSE [ok |-> FALSE, items |-> <<>>]

json_loads(toks) ==
    IF Len(toks) >= 2 /\ toks[1] = LBrace
    THEN IF toks[2] = RBrace
         THEN [ok |-> Len(toks) = 2, items |-> <<>>]
         ELSE JsonMembers(SubSeq(toks, 2, Len(toks)), <<>>)
    ELSE [ok |-> FALSE, items |-> <<>>]

\* d.get(k): the value of the last item with key k.
HasKey(d, k) == \E i \in DOMAIN d : d[i].k = k
GetKey(d, k) == d[CHOOSE i \in DOMAIN d : d[i].k = k /\ \A j \in DOMAIN d : d[j].k = k => j <= i].v

(***************************************************************************)
(* The tool classes (pydantic models with an execute method)               *)
(***************************************************************************)
ToolClasses == {"IsWeekend", "GetDayOfWeek"}

\* The class object a second import of the module of IsWeekend defines: the same
\* name and body, another object.
ReloadedIsWeekend == "IsWeekend (reloaded)"

\* The classes register_tool is given where the registry is looked at by itself.
RegistryClasses == ToolClasses \cup {ReloadedIsWeekend}

\* cls.__name__
ClassName(cls) == IF cls = ReloadedIsWeekend THEN "IsWeekend" ELSE cls

\* The declared fields, in declaration order: name, type, whether a default
\* exists, and the default.
Field(name, type, hasDefault, default) ==
    [name |-> name, type |-> type, hasDefault |-> hasDefault, default |-> default]

ModelFields(cls) ==
    CASE ClassName(cls) = "IsWeekend" ->
            << Field(<<"date_str">>, "str", FALSE, NoneV),
               Field(<<"format">>, "str", TRUE, StrV(<<"%Y-%m-%d">>)) >>
      [] ClassName(cls) = "GetDayOfWeek" ->
            << Field(<<"date_str">>, "str", FALSE, NoneV),
               Field(<<"format">>, "str", TRUE, StrV(<<"%Y-%m-%d">>)) >>

\* What is wrong with field f given the keyword arguments: "" when nothing is.
FieldError(f, kwargs) ==
    IF HasKey(kwargs, f.name)
    THEN IF GetKey(kwargs, f.name).t = f.type THEN "" ELSE "Input should be a valid string"
    ELSE IF f.hasDefault THEN "" ELSE "Field required"

RECURSIVE ErrorLines(_, _, _)
ErrorLines(fields, kwargs, i) ==
    IF i > Len(fields) THEN <<>>
    ELSE LET e == FieldError(fields[i], kwargs)
         IN  (IF e = "" THEN <<>> ELSE fields[i].name \o <<e>>)
             \o ErrorLines(fields, kwargs, i + 1)

NumErrors(fields, kwargs) ==
    Cardinality({i \in DOMAIN fields : FieldError(fields[i], kwargs) # ""})

\* A construction that validates nothing (as model_construct does).
InstantiateUnvalidated(cls, kwargs) ==
    LET fields == ModelFields(cls)
    IN  [ok |-> TRUE,
         inst |-> [i \in DOMAIN fields |->
                     IF HasKey(kwargs, fields[i].name)
                     THEN GetKey(kwargs, fields[i].name)
                     ELSE fields[i].default],
         exc |-> NoExc]

\* cls(**kwargs): validation of the keyword arguments against the declared
\* fields.  Keys that name no field are ignored.  The result is [ok, inst, exc]:
\* the instance (its field values, in declaration order) or the error raised.
Instantiate(cls, kwargs) ==
    LET fields == ModelFields(cls)
        n == NumErrors(fields, kwargs)
    IN  IF n = 0
        THEN [ok |-> TRUE,
              inst |-> [i \in DOMAIN fields |->
                          IF HasKey(kwargs, fields[i].name)
                          THEN GetKey(kwargs, fields[i].name)
                          ELSE fields[i].default],
              exc |-> NoExc]
        ELSE [ok |-> FALSE, inst |-> <<>>,
              exc |-> Exc("ValidationError",
                          <<ToString(n), " validation error for ", ClassName(cls)>>
                          \o ErrorLines(fields, kwargs, 1))]

\* datetime.strptime(s, fmt) on the date texts of the model: [ok, ymd].
strptime(s, fmt) ==
    IF fmt = <<"%Y-%m-%d">> /\ s = <<"2024-01-06">>
    THEN [ok |-> TRUE, ymd |-> <<2024, 1, 6>>]
    ELSE IF fmt = <<"%Y-%m-%d">> /\ s = <<"2024-01-08">>
    THEN [ok |-> TRUE, ymd |-> <<2024, 1, 8>>]
    ELSE [ok |-> FALSE, ymd |-> <<>>]

strptimeError(s, fmt) ==
    Exc("ValueError", <<"time data '">> \o s \o <<"' does not match format '">> \o fmt \o <<"'">>)

\* date.weekday(): Monday is 0, Sunday is 6.
weekday(ymd) ==
    LET t == <<0, 3, 2, 5, 0, 3, 5, 1, 4, 6, 2, 4>>
        y == IF ymd[2] < 3 THEN ymd[1] - 1 ELSE ymd[1]
        sundayFirst == (y + (y \div 4) - (y \div 100) + (y \div 400) + t[ymd[2]] + ymd[3]) % 7
    IN  (sundayFirst + 6) % 7

DayNames == <<"Monday", "Tuesday", "Wednesday", "Thursday", "Friday", "Saturday", "Sunday">>

\* IsWeekend.execute
IsWeekendExecute(inst) ==
    LET dt == strptime(inst[1].s, inst[2].s)
    IN  IF dt.ok
        THEN [ok |-> TRUE, value |-> BoolV(weekday(dt.ymd) >= 5), exc |-> NoExc]
        ELSE [ok |-> FALSE, value |-> NoneV, exc |-> strptimeError(inst[1].s, inst[2].s)]

\* GetDayOfWeek.execute
GetDayOfWeekExecute(inst) ==
    LET dt == strptime(inst[1].s, inst[2].s)
    IN  IF dt.ok
        THEN [ok |-> TRUE, value |-> StrV(<<DayNames[weekday(dt.ymd) + 1]>>), exc |-> NoExc]
        ELSE [ok |-> FALSE, value |-> NoneV, exc |-> strptimeError(inst[1].s, inst[2].s)]

\* tool_instance.execute(): [ok, value, exc]
Execute(cls, inst) ==
    IF ClassName(cls) = "IsWeekend" THEN IsWeekendExecute(inst)
    ELSE GetDayOfWeekExecute(inst)

(***************************************************************************)
(* ToolRegistry: _tools is a dict, here the sequence of its items in       *)
(* insertion order.                                                        *)
(***************************************************************************)
Entry(name, cls) == [name |-> name, cls |-> cls]

\* list(self._tools.keys())
get_tool_names(tools) == [i \in DOMAIN tools |-> tools[i].name]

Registered(tools, name) == \E i \in DOMAIN tools : tools[i].name = name

\* A registration that keeps the class a name already has.
register_tool_setdefault(tools, cls) ==
    IF Registered(tools, ClassName(cls)) THEN tools
    ELSE Append(tools, Entry(ClassName(cls), cls))

\* self._tools[tool_class.__name__] = tool_class
register_tool(tools, cls) ==
    IF Registered(tools, ClassName(cls))
    THEN [i \in DOMAIN tools |->
            IF tools[i].name = ClassName(cls) THEN Entry(ClassName(cls), cls) ELSE tools[i]]
    ELSE Append(tools, Entry(ClassName(cls), cls))

\* repr of a list of strings: ['a', 'b']
RECURSIVE ReprItems(_, _)
ReprItems(names, i) ==
    IF i > Len(names) THEN <<>>
    ELSE (IF i > 1 THEN <<", ">> ELSE <<>>) \o <<"'", names[i], "'">> \o ReprItems(names, i + 1)

ReprList(names) == <<"[">> \o ReprItems(names, 1) \o <<"]">>

\* get_tool with a message that does not say which name was looked up.
get_tool_terse(tools, name) ==
    IF ~Registered(tools, name)
    THEN [ok |-> FALSE, cls |-> "",
          exc |-> Exc("ValueError",
                      <<"Tool not found. Available tools: ">>
                      \o ReprList(get_tool_names(tools)))]
    ELSE [ok |-> TRUE, cls |-> tools[CHOOSE i \in DOMAIN tools : tools[i].name = name].cls,
          exc |-> NoExc]

\* get_tool with a message that lists no names.
get_tool_no_names(tools, name) ==
    IF ~Registered(tools, name)
    THEN [ok |-> FALSE, cls |-> "",
          exc |-> Exc("ValueError", <<"Tool '", name, "' not found.">>)]
    ELSE [ok |-> TRUE, cls |-> tools[CHOOSE i \in DOMAIN tools : tools[i].name = name].cls,
          exc |-> NoExc]

\* get_tool: [ok, cls, exc]
get_tool(tools, name) ==
    IF ~Registered(tools, name)
    THEN [ok |-> FALSE, cls |-> "",
          exc |-> Exc("ValueError",
                      <<"Tool '", name, "' not found. Available tools: ">>
                      \o ReprList(get_tool_names(tools)))]
    ELSE [ok |-> TRUE, cls |-> tools[CHOOSE i \in DOMAIN tools : tools[i].name = name].cls,
          exc |-> NoExc]

\* An Optional[List]: None, or a list.
Absent == [present |-> FALSE, list |-> <<>>]
Present(l) == [present |-> TRUE, list |-> l]

\* The length of the longest tool_names list given to create_pydantic_tools.
MaxNames == 2

\* The names looked up and asked for: the two of the registered classes and
\* one that no class here has.
LookupNames == {"IsWeekend", "GetDayOfWeek", "Subtract"}

\* tool_names: None, or a list of names, repetitions included.
NameLists ==
    {Absent} \cup UNION { { Present(l) : l \in [1..k -> LookupNames] } : k \in 0..MaxNames }

\* pydantic_function_tool(cls): the declaration of cls for the transport.
pydantic_function_tool(cls) ==
    [type |-> "function", name |-> ClassName(cls), strict |-> TRUE,
     parameters |-> ModelFields(cls)]

\* [self.get_tool(name) for name in tool_names]: the classes, or the exception
\* of the first name that get_tool does not find.
RECURSIVE GetTools(_, _, _)
GetTools(tools, names, i) ==
    IF i > Len(names) THEN [ok |-> TRUE, classes |-> <<>>, exc |-> NoExc]
    ELSE LET t == get_tool(tools, names[i])
         IN  IF ~t.ok THEN [ok |-> FALSE, classes |-> <<>>, exc |-> t.exc]
             ELSE LET rest == GetTools(tools, names, i + 1)
                  IN  IF ~rest.ok THEN rest
                      ELSE [ok |-> TRUE, classes |-> <<t.cls>> \o rest.classes,
                            exc |-> NoExc]

\* create_pydantic_tools that takes an empty list of names like None.
create_pydantic_tools_falsy(tools, tool_names) ==
    LET found == IF ~tool_names.present \/ tool_names.list = <<>>
                 THEN [ok |-> TRUE, classes |-> [i \in DOMAIN tools |-> tools[i].cls],
                       exc |-> NoExc]
                 ELSE GetTools(tools, tool_names.list, 1)
    IN  [ok |-> found.ok,
         schemas |-> [i \in DOMAIN found.classes |->
                        pydantic_function_tool(found.classes[i])],
         exc |-> found.exc]

\* create_pydantic_tools: [ok, schemas, exc]
create_pydantic_tools(tools, tool_names) ==
    LET found == IF ~tool_names.present
                 THEN [ok |-> TRUE, classes |-> [i \in DOMAIN tools |-> tools[i].cls],
                       exc |-> NoExc]
                 ELSE GetTools(tools, tool_names.list, 1)
    IN  [ok |-> found.ok,
         schemas |-> [i \in DOMAIN found.classes |->
                        pydantic_function_tool(found.classes[i])],
         exc |-> found.exc]

(***************************************************************************)
(* Prompt, messages, and what the chat transport is given and returns      *)
(***************************************************************************)
MkPrompt(schema, tools) ==
    [system_prompt |-> StrV(<<"You are a helpful assistant.">>),
     user_prompt |-> StrV(<<"Is 2024-01-06 a weekend?">>),
     settings |-> [provider |-> "openai", model |-> "gpt-4o"],
     response_schema |-> schema,
     tools |-> tools]

\* The prompts a client is built for: response_schema None or a type, tools
\* None, an empty list or a list of tool declarations.
Prompts ==
    { MkPrompt(schema, tools) :
        schema \in {Absent, Present(<<"Answer">>)},
        tools \in {Absent, Present(<<>>), Present(<<"IsWeekend">>)} }

\* A message of the conversation.  The dict messages carry no tool_calls; a
\* dict without the key tool_call_id has NoId there.
NoId == ""
Message(role, content, id, calls) ==
    [role |-> role, content |-> content, tool_call_id |-> id, tool_calls |-> calls]

\* One transport call: the operation and its keyword arguments.
Call(api, model, msgs, tools, fmt, stream) ==
    [api |-> api, model |-> model, messages |-> msgs, tools |-> tools,
     response_format |-> fmt, stream |-> stream]

\* A raw tool call of a response: id, function.name, function.arguments (JSON text).
RawCall(id, name, text) == [id |-> id, name |-> name, arguments |-> text]

\* The JSON texts the model sends as arguments.
DateKey == StrV(<<"date_str">>)
Payloads ==
    { <<LBrace, RBrace>>,
      <<LBrace, DateKey, Colon, StrV(<<"2024-01-06">>), RBrace>>,
      <<LBrace, DateKey, Colon, StrV(<<"2024-01-08">>), Comma,
        StrV(<<"format">>), Colon, StrV(<<"%Y-%m-%d">>), RBrace>>,
      <<LBrace, DateKey, Colon, StrV(<<"soon">>), RBrace>>,
      <<LBrace, DateKey, Colon, IntV(5), RBrace>>,
      <<LBrace, DateKey, Colon>> }

\* The ids the provider assigns to the tool calls of one response.
CallId(i) == "call_" \o ToString(i)

RawCallLists ==
    UNION { { [i \in 1..k |-> RawCall(CallId(i), f[i][1], f[i][2])] :
                f \in [1..k -> ToolClasses \X Payloads] } : k \in 0..MaxBatch }

\* The assistant messages a first call can return: tool_calls None or a list.
FirstMessages ==
    { Message("assistant", StrV(<<"first">>), NoId, calls) :
        calls \in {Absent} \cup { Present(l) : l \in RawCallLists } }

ToolCallRequest(id, name, arguments) ==
    [id |-> id, function_name |-> name, arguments |-> arguments]

ToolCallResponse(id, name, arguments, result, status) ==
    [tool_call_id |-> id, function_name |-> name, arguments |-> arguments,
     result |-> result, status |-> status]

(***************************************************************************)
(* Texts of prompts, character by character, and placeholder substitution  *)
(***************************************************************************)
\* The length of the longest text that placeholders are filled in.
MaxTextLen == 5

\* The characters of those texts (none of them a line break, which "." of the
\* pattern would not match).
Alphabet == {"{", "}", "a", "b", "-"}

TextsUpTo(n) == UNION { [1..k -> Alphabet] : k \in 0..n }

\* text.startswith(sub, i)
StartsWithAt(text, sub, i) ==
    /\ i + Len(sub) - 1 <= Len(text)
    /\ \A k \in 1..Len(sub) : text[i + k - 1] = sub[k]

\* re.findall(r"{(.*?)}", text) from position i on: at the leftmost "{" that has
\* a "}" after it, the match runs to the nearest "}", the group is what lies
\* between, and the search goes on behind the match.
RECURSIVE FindAll(_, _)
FindAll(text, i) ==
    LET opens == { j \in i..Len(text) :
                     text[j] = "{" /\ \E k \in (j + 1)..Len(text) : text[k] = "}" }
    IN  IF opens = {} THEN <<>>
        ELSE LET j == CHOOSE o \in opens : \A o2 \in opens : o <= o2
                 k == CHOOSE c \in (j + 1)..Len(text) :
                        /\ text[c] = "}"
                        /\ \A c2 \in (j + 1)..(c - 1) : text[c2] # "}"
             IN  <<SubSeq(text, j + 1, k - 1)>> \o FindAll(text, k + 1)

\* text.replace(old, new) from position i on: every occurrence of old, left to
\* right, none overlapping another.
RECURSIVE Replace(_, _, _, _)
Replace(text, old, new, i) ==
    IF i > Len(text) THEN <<>>
    ELSE IF StartsWithAt(text, old, i)
    THEN new \o Replace(text, old, new, i + Len(old))
    ELSE <<text[i]>> \o Replace(text, old, new, i + 1)

\* f"{{{placeholder}}}"
Token(placeholder) == <<"{">> \o placeholder \o <<"}">>

\* One loop of _fill_placeholders: the names found in the text as it was, each
\* replaced in the text as it has become.
RECURSIVE FillLoop(_, _, _, _)
FillLoop(text, found, placeholders, i) ==
    IF i > Len(found) THEN text
    ELSE FillLoop(IF HasKey(placeholders, found[i])
                  THEN Replace(text, Token(found[i]), GetKey(placeholders, found[i]), 1)
                  ELSE text,
                  found, placeholders, i + 1)

\* A substitution that goes through the mapping, item by item, instead of
\* through the names found in the text.
RECURSIVE FillByItems(_, _, _)
FillByItems(text, placeholders, i) ==
    IF i > Len(placeholders) THEN text
    ELSE FillByItems(Replace(text, Token(placeholders[i].k), placeholders[i].v, 1),
                     placeholders, i + 1)

fill_by_items(text, placeholders) == FillByItems(text, placeholders, 1)

\* _fill_placeholders on one of the two texts.
_fill_placeholders(text, placeholders) ==
    FillLoop(text, FindAll(text, 1), placeholders, 1)

\* The placeholder names and, for each, its values: a plain one and one that
\* holds the token of the other name.
PlaceholderNames == {<<"a">>, <<"b">>}
PlaceholderValues(name) ==
    IF name = <<"a">> THEN {<<"X">>, <<"{", "b", "}">>}
    ELSE {<<"Y">>, <<"{", "a", "}">>}

PlaceholderItems ==
    UNION { { Item(name, v) : v \in PlaceholderValues(name) } : name \in PlaceholderNames }

\* placeholders: None, or a dict, here its items in insertion order, no key twice.
PlaceholderMappings ==
    {Absent} \cup
    { Present(m) : m \in { items \in UNION { [1..n -> PlaceholderItems] : n \in 0..2 } :
                             \A i, j \in DOMAIN items :
                                 items[i].k = items[j].k => i = j } }

\* if placeholders:
Truthy(placeholders) == placeholders.present /\ placeholders.list # <<>>

(***************************************************************************)
(* Storage providers: what list_files and download_file give a loader      *)
(***************************************************************************)
\* Optional[bytes]: None, or the bytes of a file.  The bytes of settings.json
\* are the tokens of a JSON text, those of the other files are characters.
NoBytes == [present |-> FALSE, data |-> <<>>]
Bytes(data) == [present |-> TRUE, data |-> data]

\* str.encode("utf-8") and bytes.decode("utf-8")
encode(text) == Bytes(text)
decode(bytes) == bytes.data

\* PromptSettings(provider, model)
PromptSettings(provider, model) == [provider |-> provider, model |-> model]

\* json.dumps(prompt_settings.__dict__)
json_dumps(settings) ==
    << LBrace, StrV(<<"provider">>), Colon, settings.provider, Comma,
       StrV(<<"model">>), Colon, settings.model, RBrace >>

\* PromptSettings(**d): the keys must be provider and model, each once given;
\* any other set of keys is a TypeError.
NoSettings == PromptSettings(NoneV, NoneV)

\* A construction that takes the two values in the order of the other.
PromptSettingsFromSwapped(d) ==
    IF {d[i].k : i \in DOMAIN d} = {<<"provider">>, <<"model">>}
    THEN [ok |-> TRUE,
          settings |-> PromptSettings(GetKey(d, <<"model">>), GetKey(d, <<"provider">>))]
    ELSE [ok |-> FALSE, settings |-> NoSettings]

PromptSettingsFrom(d) ==
    IF {d[i].k : i \in DOMAIN d} = {<<"provider">>, <<"model">>}
    THEN [ok |-> TRUE,
          settings |-> PromptSettings(GetKey(d, <<"provider">>), GetKey(d, <<"model">>))]
    ELSE [ok |-> FALSE, settings |-> NoSettings]

\* The files of a prompt.
FileNames == <<"settings.json", "system.md", "user.md">>
Files(settings_json, system_md, user_md) ==
    [n \in {"settings.json", "system.md", "user.md"} |->
        CASE n = "settings.json" -> settings_json
          [] n = "system.md" -> system_md
          [] OTHER -> user_md]
NoFiles == Files(NoBytes, NoBytes, NoBytes)

\* The entries of a prompt directory in the order os.listdir gives them: the
\* files of a prompt and a file whose name is one blank.
DirNames == FileNames \o <<" ">>

\* file_name.strip(), for the names that are asked for.
strip(file_name) ==
    CASE file_name = " " -> ""
      [] file_name = " system.md" -> "system.md"
      [] OTHER -> file_name

\* BlobStorageClient._working_folder of BlobStorageProvider("prompt"), as
\* _normalize_path leaves it, and BlobStorageClient._get_full_path.
_working_folder == "prompt/"
_get_full_path(filename) == _working_folder \o filename

\* The blobs a container may hold, by name: the marker of the working folder,
\* the marker of a folder nested in it, files of the working folder and a file
\* of another folder.
BlobNames ==
    << "other/system.md", "prompt/", "prompt/ ", "prompt/notes.txt",
       "prompt/settings.json", "prompt/sub/", "prompt/system.md", "prompt/user.md" >>

\* list_blobs(name_starts_with=prefix): the names that start with the prefix.
name_starts_with(prefix) ==
    IF prefix = "prompt/"
    THEN { BlobNames[i] : i \in 2..Len(BlobNames) }
    ELSE {}

\* A provider: its class, what a MemoryProvider was constructed with, the
\* directory of a FileSystemProvider (its files and whether it holds a file
\* named notes.txt) or the blobs of the container of a BlobStorageProvider,
\* for a provider of another class what its list_files and download_file
\* answer, and whether the directory or the container can be reached.
Storage(kind, system_prompt, prompt_settings, user_prompt, files, other, listing, io) ==
    [kind |-> kind, _system_prompt |-> system_prompt, _prompt_settings |-> prompt_settings,
     _user_prompt |-> user_prompt, files |-> files, other |-> other, listing |-> listing,
     io |-> io]

MemoryProvider(system_prompt, prompt_settings, user_prompt) ==
    Storage("MemoryProvider", system_prompt, prompt_settings, user_prompt, NoFiles,
            FALSE, <<>>, "ok")
FileSystemProvider(files, other) ==
    Storage("FileSystemProvider", <<>>, NoSettings, <<>>, files, other, <<>>, "ok")
BlobStorageProvider(blobs) ==
    Storage("BlobStorageProvider", <<>>, NoSettings, <<>>, blobs, FALSE, <<>>, "ok")
CustomProvider(files, listing) ==
    Storage("CustomProvider", <<>>, NoSettings, <<>>, files, FALSE, listing, "ok")
NoStorage == Storage("", <<>>, NoSettings, <<>>, NoFiles, FALSE, <<>>, "ok")

\* A sequence holds a name.
Mentions(frags, name) == \E k \in DOMAIN frags : frags[k] = name

\* The names of a sequence for which keep holds, in their order.
RECURSIVE SelectNames(_, _, _)
SelectNames(names, keep, i) ==
    IF i > Len(names) THEN <<>>
    ELSE (IF keep[names[i]] THEN <<names[i]>> ELSE <<>>) \o SelectNames(names, keep, i + 1)

\* Accesses that are taken to succeed whatever the state of the storage.
IOFailedNever(st) == FALSE

\* An access to the directory or to the container raises: the directory was
\* removed, or the operating system or the service answers with an error.
IOFailed(st) == st.io # "ok"

\* What the directory or the container holds under a name.
Stored(st, name) ==
    CASE name \in DOMAIN st.files -> st.files[name]
      [] name = "notes.txt" /\ st.other -> Bytes(<<"b">>)
      [] OTHER -> NoBytes

\* provider.list_files(): the names of the entries.
list_files(st) ==
    CASE st.kind = "MemoryProvider" ->
            <<"settings.json", "system.md">>
            \o (IF st._user_prompt # <<>> THEN <<"user.md">> ELSE <<>>)
      [] st.kind = "FileSystemProvider" ->
            IF IOFailed(st) THEN <<>>
            ELSE SelectNames(DirNames,
                             [n \in {DirNames[i] : i \in DOMAIN DirNames} |->
                                 Stored(st, n).present], 1)
                 \o (IF st.other THEN <<"notes.txt">> ELSE <<>>)
      [] st.kind = "BlobStorageProvider" ->
            IF IOFailed(st) THEN <<>>
            ELSE SelectNames(BlobNames,
                             [n \in {BlobNames[i] : i \in DOMAIN BlobNames} |->
                                 /\ n \in name_starts_with(_working_folder)
                                 /\ Stored(st, n).present
                                 /\ n # _working_folder], 1)
      [] OTHER -> st.listing

\* provider.download_file(file_name)
download_file(st, file_name) ==
    CASE st.kind = "MemoryProvider" ->
            (CASE file_name = "settings.json" -> encode(json_dumps(st._prompt_settings))
               [] file_name = "system.md" -> encode(st._system_prompt)
               [] file_name = "user.md" ->
                    IF st._user_prompt # <<>> THEN encode(st._user_prompt) ELSE NoBytes
               [] OTHER -> NoBytes)
      [] st.kind = "FileSystemProvider" ->
            \* the path of the name "" is the directory, which open() refuses
            IF IOFailed(st) \/ file_name = "" THEN NoBytes
            ELSE Stored(st, file_name)
      [] st.kind = "BlobStorageProvider" ->
            IF strip(file_name) = "" THEN NoBytes
            ELSE IF IOFailed(st) THEN NoBytes
            ELSE Stored(st, _get_full_path(strip(file_name)))
      [] OTHER -> Stored(st, file_name)

\* An existence that is told by the name alone.
file_exists_by_name(st, file_name) ==
    file_name \in {"settings.json", "system.md", "user.md"}

\* provider.file_exists(file_name)
file_exists(st, file_name) ==
    CASE st.kind = "MemoryProvider" ->
            IF file_name = "user.md" THEN st._user_prompt # <<>>
            ELSE file_name \in {"settings.json", "system.md"}
      [] st.kind = "FileSystemProvider" ->
            \* os.path.isfile: false for the directory and on an error
            /\ ~IOFailed(st)
            /\ file_name # ""
            /\ Stored(st, file_name).present
      [] st.kind = "BlobStorageProvider" ->
            /\ strip(file_name) # ""
            /\ ~IOFailed(st)
            /\ Stored(st, _get_full_path(strip(file_name))).present
      [] OTHER -> Stored(st, file_name).present

\* An exception of an operation of a provider reaches the caller: each
\* operation that can fail catches Exception, and os.path.isfile raises none.
Propagates(st, operation) == FALSE

\* The texts, the settings and the files that loaders are constructed over.
LoaderTexts == {<<>>, <<"a">>, <<"{", "a", "}">>}
SettingsValues ==
    { PromptSettings(StrV(<<provider>>), StrV(<<"gpt-4">>)) :
        provider \in {"openai", "azure"} }

\* What a settings.json may hold: settings, a text that is no JSON, and an
\* object without the key model.
SettingsTexts ==
    { json_dumps(settings) : settings \in SettingsValues }
    \cup { <<LBrace, StrV(<<"provider">>), Colon>>,
           <<LBrace, StrV(<<"provider">>), Colon, StrV(<<"openai">>), RBrace>> }

SettingsFiles == {NoBytes} \cup { Bytes(toks) : toks \in SettingsTexts }
TextFiles == {NoBytes, encode(<<>>), encode(<<"{", "a", "}">>)}

Storages ==
    { MemoryProvider(system_prompt, settings, user_prompt) :
        system_prompt \in LoaderTexts, settings \in SettingsValues,
        user_prompt \in LoaderTexts }
    \cup { FileSystemProvider(Files(settings_json, system_md, user_md), other) :
             settings_json \in SettingsFiles, system_md \in TextFiles,
             user_md \in TextFiles, other \in BOOLEAN }
    \cup { CustomProvider(Files(settings_json, system_md, user_md), listing) :
             settings_json \in SettingsFiles, system_md \in TextFiles,
             user_md \in TextFiles,
             listing \in {<<>>, <<"settings.json", "system.md">>} }

(***************************************************************************)
(* State                                                                   *)
(***************************************************************************)
VARIABLES
    _tools,               \* tool_registry._tools
    registered,           \* for each name, the class register_tool was last given
    lookup,               \* the last call of get_tool and what it ended with
    exported,             \* the last call of create_pydantic_tools, likewise
    _prompt,              \* ModelClient._prompt
    client,               \* ModelClient._client, or that there is none
    environ,              \* os.environ
    conversed,            \* an earlier invocation appended to its messages
    op,                   \* the operation being invoked, "" when none is
    pc,                   \* where the current invocation stands
    calls,                \* the transport calls of the current invocation
    completion,           \* the message of the last completion
    replies,              \* the messages the transport returned, in order
    messages,             \* get_text_completion's messages
    tool_requests,        \* the batch given to run_tools
    tool_call_responses,  \* run_tools' result so far
    idx,                  \* the position of run_tools' loop in the batch
    tool_class,           \* _dispatch_tool_call's locals
    tool_instance,
    result,
    exc,                  \* the exception being handled or propagated
    executed,             \* the positions whose execute has been called
    ret,                  \* what the invocation returned
    storage,              \* PromptLoader._provider
    placeholders,         \* the placeholders a loader is constructed with
    _response_schema,     \* PromptLoader._response_schema
    _loader_tools,        \* PromptLoader._tools
    loader_pc,            \* where the construction of the loader stands
    _prompt_settings,     \* PromptLoader._prompt_settings
    _system_prompt,       \* PromptLoader._system_prompt
    _user_prompt,         \* PromptLoader._user_prompt
    accesses,             \* the calls made on the provider, in order
    loader_exc,           \* the exception PromptLoader(...) raised
    probe                 \* the last call made on the provider by itself

registryVars == <<_tools, registered, lookup, exported>>
clientVars == <<_prompt, client, environ, conversed>>
textVars == <<calls, completion, replies, messages>>
loopVars == <<tool_requests, tool_call_responses, idx>>
dispatchVars == <<tool_class, tool_instance, result, exc, executed>>
loaderVars == <<storage, placeholders, _response_schema, _loader_tools, loader_pc,
                _prompt_settings, _system_prompt, _user_prompt, accesses, loader_exc,
                probe>>
vars == <<_tools, registered, lookup, exported, _prompt, client, environ, conversed, op, pc,
          calls, completion, replies, messages, tool_requests,
          tool_call_responses, idx, tool_class, tool_instance, result, exc, executed, ret,
          storage, placeholders, _response_schema, _loader_tools, loader_pc,
          _prompt_settings, _system_prompt, _user_prompt, accesses, loader_exc,
          probe>>

NoMessage == Message("", NoneV, NoId, Absent)
NoReturn == [kind |-> "none", value |-> NoneV]
Returned(v) == [kind |-> "value", value |-> v]
Raised == [kind |-> "raise", value |-> NoneV]

\* The names os.getenv is asked for, and what the environment holds for one: no
\* entry, the empty string, or a value.
EnvNames == {"OPENAI_API_KEY", "AZURE_OPENAI_ENDPOINT_URL", "AZURE_OPENAI_API_KEY",
             "AZURE_OPENAI_API_VERSION", "GROK_API_KEY"}
EnvValues == {"unset", "empty", "value"}

\* not os.getenv(name)
NotSet(env, name) == env[name] # "value"

\* No client: __init__ has not run, or it raised.
Unbuilt == "unbuilt"
NotBuilt == "failed"
HasClient == client \notin {Unbuilt, NotBuilt}

\* No call of get_tool and of create_pydantic_tools yet.
NoLookup ==
    [called |-> FALSE, name |-> "", at |-> <<>>, ok |-> TRUE, cls |-> "", exc |-> NoExc]
NoExport ==
    [called |-> FALSE, tool_names |-> Absent, at |-> <<>>, ok |-> TRUE,
     schemas |-> <<>>, exc |-> NoExc]

\* The registry as ToolRegistry.__init__ leaves it.
EmptyRegistry ==
    /\ _tools = <<>>
    /\ registered = [name \in LookupNames |-> ""]
    /\ lookup = NoLookup
    /\ exported = NoExport

\* No invocation is under way and none has left anything behind.
NoInvocation ==
    /\ conversed = FALSE
    /\ op = ""
    /\ pc = "idle"
    /\ calls = <<>>
    /\ completion = NoMessage
    /\ replies = <<>>
    /\ messages = <<>>
    /\ tool_requests = <<>>
    /\ tool_call_responses = <<>>
    /\ idx = 0
    /\ tool_class = ""
    /\ tool_instance = <<>>
    /\ result = NoneV
    /\ exc = NoExc
    /\ executed = <<>>
    /\ ret = NoReturn

\* A call of an operation of a provider: the operation, the name it was given,
\* the provider as it was, whether the call raised, and what it returned.
Probe(operation, file_name, at, raised, names, content, found) ==
    [op |-> operation, name |-> file_name, at |-> at, raised |-> raised,
     names |-> names, content |-> content, found |-> found]
NoProbe == Probe("", "", NoStorage, FALSE, <<>>, NoBytes, FALSE)

\* No loader has been constructed: none of its fields is set.
NoLoaderFields ==
    /\ probe = NoProbe
    /\ loader_pc = "unbuilt"
    /\ _prompt_settings = NoSettings
    /\ _system_prompt = <<>>
    /\ _user_prompt = <<>>
    /\ accesses = <<>>
    /\ loader_exc = NoExc

NoLoader ==
    /\ storage = NoStorage
    /\ placeholders = Absent
    /\ _response_schema = Absent
    /\ _loader_tools = Absent
    /\ NoLoaderFields

\* A client built for an openai prompt, in an environment that holds its key;
\* the registry as ToolRegistry.__init__ leaves it.
Init ==
    /\ EmptyRegistry
    /\ _prompt \in Prompts
    /\ client = "OpenAI"
    /\ environ = [name \in EnvNames |->
                    IF name = "OPENAI_API_KEY" THEN "value" ELSE "unset"]
    /\ NoInvocation
    /\ NoLoader

\* The locals of an invocation as they are before it starts.
FreshLocals ==
    /\ calls' = <<>>
    /\ completion' = NoMessage
    /\ replies' = <<>>
    /\ messages' = <<>>
    /\ tool_requests' = <<>>
    /\ tool_call_responses' = <<>>
    /\ idx' = 0
    /\ tool_class' = ""
    /\ tool_instance' = <<>>
    /\ result' = NoneV
    /\ exc' = NoExc
    /\ executed' = <<>>
    /\ ret' = NoReturn

(***************************************************************************)
(* ToolRegistry.register_tool, called between invocations                  *)
(***************************************************************************)
RegisterTool(cls) ==
    /\ pc = "idle"
    /\ _tools' = register_tool(_tools, cls)
    /\ registered' = [registered EXCEPT ![ClassName(cls)] = cls]
    /\ UNCHANGED <<lookup, exported>>
    /\ UNCHANGED <<clientVars, loaderVars, op, pc, textVars, loopVars, dispatchVars, ret>>

(***************************************************************************)
(* ModelClient                                                             *)
(***************************************************************************)
\* Base messages with the two texts under each other's role.
BaseMessagesSwapped(p) ==
    << Message("system", p.user_prompt, NoId, Absent),
       Message("user", p.system_prompt, NoId, Absent) >>

\* Base messages that go on with the reply an earlier invocation ended with.
BaseMessagesWithEarlierReply(p) ==
    << Message("system", p.system_prompt, NoId, Absent),
       Message("user", p.user_prompt, NoId, Absent),
       Message("assistant", StrV(<<"final">>), NoId, Absent) >>

_build_base_messages(p) ==
    << Message("system", p.system_prompt, NoId, Absent),
       Message("user", p.user_prompt, NoId, Absent) >>

\* The text of the completion a call without tool results returns.
Contents == {StrV(<<"first">>), StrV(<<"final">>)}

\* get_text_completion, tools is None: one call, its content returned.
TextReturn(m) == Returned(m.content)

GetTextCompletionNoTools ==
    /\ pc = "idle"
    /\ HasClient
    /\ ~_prompt.tools.present
    /\ \E c \in Contents :
        LET m == Message("assistant", c, NoId, Absent)
        IN  /\ calls' = <<Call("chat.completions.create", _prompt.settings.model,
                               _build_base_messages(_prompt), Absent, Absent, FALSE)>>
            /\ completion' = m
            /\ replies' = <<m>>
            /\ ret' = TextReturn(m)
    /\ op' = "text"
    /\ pc' = "done"
    /\ UNCHANGED <<registryVars, clientVars, loaderVars, messages, loopVars, dispatchVars>>

\* get_text_completion, tools given: the first call.
FirstCall ==
    /\ pc = "idle"
    /\ HasClient
    /\ _prompt.tools.present
    /\ messages' = _build_base_messages(_prompt)
    /\ calls' = <<Call("chat.completions.create", _prompt.settings.model,
                       messages', _prompt.tools, Absent, FALSE)>>
    /\ completion' \in FirstMessages
    /\ replies' = <<completion'>>
    /\ op' = "text"
    /\ pc' = "requests"
    /\ UNCHANGED <<registryVars, clientVars, loaderVars, loopVars, dispatchVars, ret>>

\* A decoding that leaves out the calls whose arguments are no JSON.
RECURSIVE DecodeSkipping(_, _)
DecodeSkipping(raw, i) ==
    IF i > Len(raw) THEN <<>>
    ELSE LET d == json_loads(raw[i].arguments)
         IN  (IF d.ok THEN <<[id |-> raw[i].id, function_name |-> raw[i].name,
                              arguments |-> d.items]>>
              ELSE <<>>)
             \o DecodeSkipping(raw, i + 1)

BuildToolRequestsSkipping(tool_calls) ==
    IF ~tool_calls.present
    THEN [ok |-> FALSE, requests |-> <<>>,
          exc |-> [type |-> "TypeError", msg |-> <<"'NoneType' object is not iterable">>]]
    ELSE [ok |-> TRUE, requests |-> DecodeSkipping(tool_calls.list, 1),
          exc |-> [type |-> "", msg |-> <<>>]]

\* The list comprehension over message.tool_calls: [ok, requests, exc].  None is
\* not iterable; json.loads raises on the first text that is no JSON.
RECURSIVE DecodeAll(_, _)
DecodeAll(raw, i) ==
    IF i > Len(raw) THEN [ok |-> TRUE, requests |-> <<>>, exc |-> NoExc]
    ELSE LET d == json_loads(raw[i].arguments)
         IN  IF ~d.ok
             THEN [ok |-> FALSE, requests |-> <<>>,
                   exc |-> Exc("JSONDecodeError", <<"Expecting value">>)]
             ELSE LET rest == DecodeAll(raw, i + 1)
                  IN  IF rest.ok
                      THEN [ok |-> TRUE,
                            requests |-> <<ToolCallRequest(raw[i].id, raw[i].name, d.items)>>
                                         \o rest.requests,
                            exc |-> NoExc]
                      ELSE rest

BuildToolRequests(tool_calls) ==
    IF ~tool_calls.present
    THEN [ok |-> FALSE, requests |-> <<>>,
          exc |-> Exc("TypeError", <<"'NoneType' object is not iterable">>)]
    ELSE DecodeAll(tool_calls.list, 1)

BuildRequests ==
    /\ pc = "requests"
    /\ LET r == BuildToolRequests(completion.tool_calls)
       IN  IF r.ok
           THEN /\ tool_requests' = r.requests
                /\ pc' = "run_tools"
                /\ UNCHANGED <<exc, ret>>
           ELSE /\ exc' = r.exc
                /\ ret' = Raised
                /\ pc' = "failed"
                /\ UNCHANGED tool_requests
    /\ UNCHANGED <<registryVars, clientVars, loaderVars, op, textVars, tool_call_responses, idx,
                   tool_class, tool_instance, result, executed>>

(***************************************************************************)
(* ToolRunner.run_tools and _dispatch_tool_call                            *)
(***************************************************************************)
\* run_tools is entered: an empty batch returns [] at once.
RunTools ==
    /\ pc = "run_tools"
    /\ IF tool_requests = <<>>
       THEN pc' = "second_call" /\ idx' = idx
       ELSE pc' = "get_tool" /\ idx' = 1
    /\ tool_call_responses' = <<>>
    /\ UNCHANGED <<registryVars, clientVars, loaderVars, op, textVars, tool_requests, dispatchVars, ret>>

\* A handler written as except KeyError, which a failed lookup does not raise.
CatchesKeyError(e) == e.type = "KeyError"

\* except Exception: the classes the handler catches.
Catches(e) == e.type \in ExceptionClasses

\* An exception raised inside the try block of _dispatch_tool_call.
RaiseInTry(e) ==
    /\ exc' = e
    /\ IF Catches(e)
       THEN pc' = "except" /\ ret' = ret
       ELSE pc' = "failed" /\ ret' = Raised

\* A runner that knows only the registered tools the Prompt declares.
ToolRunnerOfDeclared(tools, prompt) ==
    SelectSeq(tools, LAMBDA e : Mentions(prompt.tools.list, e.name))

\* ToolRunner()._registry: the registry of the process; the runner is
\* constructed without arguments and is not given the Prompt.
ToolRunner(tools, prompt) == tools

DispatchGetTool ==
    /\ pc = "get_tool"
    /\ LET r == get_tool(ToolRunner(_tools, _prompt), tool_requests[idx].function_name)
       IN  IF r.ok
           THEN /\ tool_class' = r.cls
                /\ pc' = "instantiate"
                /\ UNCHANGED <<exc, ret>>
           ELSE /\ RaiseInTry(r.exc)
                /\ UNCHANGED tool_class
    /\ UNCHANGED <<registryVars, clientVars, loaderVars, op, textVars, loopVars, tool_instance,
                   result, executed>>

DispatchInstantiate ==
    /\ pc = "instantiate"
    /\ LET r == Instantiate(tool_class, tool_requests[idx].arguments)
       IN  IF r.ok
           THEN /\ tool_instance' = r.inst
                /\ pc' = "execute"
                /\ UNCHANGED <<exc, ret>>
           ELSE /\ RaiseInTry(r.exc)
                /\ UNCHANGED tool_instance
    /\ UNCHANGED <<registryVars, clientVars, loaderVars, op, textVars, loopVars, tool_class,
                   result, executed>>

DispatchExecute ==
    /\ pc = "execute"
    /\ executed' = Append(executed, idx)
    /\ LET r == Execute(tool_class, tool_instance)
       IN  IF r.ok
           THEN /\ result' = r.value
                /\ pc' = "return"
                /\ UNCHANGED <<exc, ret>>
           ELSE /\ RaiseInTry(r.exc)
                /\ UNCHANGED result
    /\ UNCHANGED <<registryVars, clientVars, loaderVars, op, textVars, loopVars, tool_class,
                   tool_instance>>

\* A success response that carries the text of the result, not the result.
SuccessResponseStr(req, value) ==
    ToolCallResponse(req.id, req.function_name, req.arguments, Str(value), "success")

\* An error response that leaves the id out.
ErrorResponseNoId(req, e) ==
    ToolCallResponse(NoId, req.function_name, req.arguments, StrV(e.msg), "error")

SuccessResponse(req, value) ==
    ToolCallResponse(req.id, req.function_name, req.arguments, value, "success")

ErrorResponse(req, e) ==
    ToolCallResponse(req.id, req.function_name, req.arguments, StrV(e.msg), "error")

\* A loop that stops at the first error response.
LoopAppendBreak(response) ==
    /\ tool_call_responses' = Append(tool_call_responses, response)
    /\ IF idx < Len(tool_requests) /\ response.status # "error"
       THEN idx' = idx + 1 /\ pc' = "get_tool"
       ELSE idx' = idx /\ pc' = "second_call"
    /\ tool_class' = ""
    /\ tool_instance' = <<>>
    /\ result' = NoneV
    /\ exc' = NoExc

\* The response is appended and the loop goes on to the next request, or
\* run_tools returns.
LoopAppend(response) ==
    /\ tool_call_responses' = Append(tool_call_responses, response)
    /\ IF idx < Len(tool_requests)
       THEN idx' = idx + 1 /\ pc' = "get_tool"
       ELSE idx' = idx /\ pc' = "second_call"
    /\ tool_class' = ""
    /\ tool_instance' = <<>>
    /\ result' = NoneV
    /\ exc' = NoExc

DispatchReturn ==
    /\ pc = "return"
    /\ LoopAppend(SuccessResponse(tool_requests[idx], result))
    /\ UNCHANGED <<registryVars, clientVars, loaderVars, op, textVars, tool_requests, executed, ret>>

DispatchExcept ==
    /\ pc = "except"
    /\ LoopAppend(ErrorResponse(tool_requests[idx], exc))
    /\ UNCHANGED <<registryVars, clientVars, loaderVars, op, textVars, tool_requests, executed, ret>>

(***************************************************************************)
(* get_text_completion after run_tools, and the other two operations       *)
(***************************************************************************)
ToolMessage(r) == Message("tool", Str(r.result), r.tool_call_id, Absent)

\* Messages to which only the results of the successful calls are appended.
SecondMessagesSuccessOnly(msgs, assistant, results) ==
    LET ok == SelectSeq(results, LAMBDA r : r.status = "success")
    IN  Append(msgs, assistant) \o [i \in DOMAIN ok |-> ToolMessage(ok[i])]

\* messages after the assistant message and the tool results are appended.
SecondMessages(msgs, assistant, results) ==
    Append(msgs, assistant) \o [i \in DOMAIN results |-> ToolMessage(results[i])]

SecondCall ==
    /\ pc = "second_call"
    /\ messages' = SecondMessages(messages, completion, tool_call_responses)
    /\ calls' = Append(calls, Call("chat.completions.create", _prompt.settings.model,
                                   messages', _prompt.tools, Absent, FALSE))
    /\ completion' = Message("assistant", StrV(<<"final">>), NoId, Absent)
    /\ replies' = Append(replies, completion')
    /\ ret' = TextReturn(completion')
    /\ pc' = "done"
    /\ UNCHANGED <<registryVars, clientVars, loaderVars, op, loopVars, dispatchVars>>

\* get_structured_completion without its check of the schema.
SchemaNotChecked(p) == TRUE

\* Whether get_structured_completion goes on to the transport.
HasResponseSchema(p) == p.response_schema.present

\* What the parse call may hand back as message.parsed.
ParsedObjects == {ObjV("parsed"), NoneV}

\* The handles a streaming call may hand back.
StreamHandles == {ObjV("stream"), ObjV("stream2")}

\* A parse call that also passes the tool declarations of the prompt.
StructuredCallWithTools(p) ==
    Call("beta.chat.completions.parse", p.settings.model, _build_base_messages(p),
         p.tools, p.response_schema, FALSE)

\* The one transport call of get_structured_completion.
StructuredCall(p) ==
    Call("beta.chat.completions.parse", p.settings.model, _build_base_messages(p),
         Absent, p.response_schema, FALSE)

\* A streaming call that also passes the tool declarations of the prompt.
StreamedCallWithTools(p) ==
    Call("chat.completions.create", p.settings.model, _build_base_messages(p),
         p.tools, Absent, TRUE)

\* The one transport call of get_streamed_completion.
StreamedCall(p) ==
    Call("chat.completions.create", p.settings.model, _build_base_messages(p),
         Absent, Absent, TRUE)

GetStructuredCompletion ==
    /\ pc = "idle"
    /\ HasClient
    /\ op' = "structured"
    /\ IF ~HasResponseSchema(_prompt)
       THEN /\ exc' = Exc("ValueError",
                          <<"No response schema provided and none defined in prompt">>)
            /\ ret' = Raised
            /\ pc' = "failed"
            /\ UNCHANGED <<calls, completion, replies>>
       ELSE /\ calls' = <<StructuredCall(_prompt)>>
            /\ \E parsed \in ParsedObjects :
                  completion' = Message("assistant", parsed, NoId, Absent)
            /\ replies' = <<completion'>>
            /\ ret' = Returned(completion'.content)
            /\ pc' = "done"
            /\ UNCHANGED exc
    /\ UNCHANGED <<registryVars, clientVars, loaderVars, messages, loopVars, tool_class,
                   tool_instance, result, executed>>

\* The stream is kept in replies as the content of a message, so that what is
\* returned can be compared with what the transport handed back.
GetStreamedCompletion ==
    /\ pc = "idle"
    /\ HasClient
    /\ op' = "streamed"
    /\ calls' = <<StreamedCall(_prompt)>>
    /\ \E stream \in StreamHandles :
          replies' = <<Message("assistant", stream, NoId, Absent)>>
    /\ ret' = Returned(replies'[1].content)
    /\ pc' = "done"
    /\ UNCHANGED <<registryVars, clientVars, loaderVars, completion, messages, loopVars,
                   dispatchVars>>

\* The invocation is over and its locals are gone.
Finish ==
    /\ pc \in {"done", "failed"}
    /\ op' = ""
    /\ pc' = "idle"
    /\ conversed' = (conversed \/ Len(messages) > Len(_build_base_messages(_prompt)))
    /\ FreshLocals
    /\ UNCHANGED <<registryVars, _prompt, client, environ, loaderVars>>

Next ==
    \/ \E cls \in ToolClasses : RegisterTool(cls)
    \/ GetTextCompletionNoTools
    \/ FirstCall
    \/ BuildRequests
    \/ RunTools
    \/ DispatchGetTool
    \/ DispatchInstantiate
    \/ DispatchExecute
    \/ DispatchReturn
    \/ DispatchExcept
    \/ SecondCall
    \/ GetStructuredCompletion
    \/ GetStreamedCompletion
    \/ Finish

Spec == Init /\ [][Next]_vars

(***************************************************************************)
(* ModelClient.__init__: the provider of the prompt and the environment    *)
(* decide whether there is a client                                        *)
(***************************************************************************)
\* What __init__ ends with: the client it built, or the exception it raised.
Built(c) == [ok |-> TRUE, client |-> c, exc |-> NoExc]
NotSetError(name) ==
    [ok |-> FALSE, client |-> NotBuilt, exc |-> Exc("ValueError", <<name, " is not set">>)]

\* A constructor that does not ask for AZURE_OPENAI_API_VERSION.
ConstructClientLax(p, env) ==
    CASE p.settings.provider = "openai" ->
            IF NotSet(env, "OPENAI_API_KEY") THEN NotSetError("OPENAI_API_KEY")
            ELSE Built("OpenAI")
      [] p.settings.provider = "azure" ->
            IF NotSet(env, "AZURE_OPENAI_ENDPOINT_URL")
            THEN NotSetError("AZURE_OPENAI_ENDPOINT_URL")
            ELSE IF NotSet(env, "AZURE_OPENAI_API_KEY")
            THEN NotSetError("AZURE_OPENAI_API_KEY")
            ELSE Built("AzureOpenAI")
      [] p.settings.provider = "grok" ->
            IF NotSet(env, "GROK_API_KEY") THEN NotSetError("GROK_API_KEY")
            ELSE Built("OpenAI https://api.x.ai/v1")
      [] OTHER ->
            [ok |-> FALSE, client |-> NotBuilt,
             exc |-> Exc("ValueError", <<"Invalid provider: ", p.settings.provider>>)]

ConstructClient(p, env) ==
    CASE p.settings.provider = "openai" ->
            IF NotSet(env, "OPENAI_API_KEY") THEN NotSetError("OPENAI_API_KEY")
            ELSE Built("OpenAI")
      [] p.settings.provider = "azure" ->
            IF NotSet(env, "AZURE_OPENAI_ENDPOINT_URL")
            THEN NotSetError("AZURE_OPENAI_ENDPOINT_URL")
            ELSE IF NotSet(env, "AZURE_OPENAI_API_KEY")
            THEN NotSetError("AZURE_OPENAI_API_KEY")
            ELSE IF NotSet(env, "AZURE_OPENAI_API_VERSION")
            THEN NotSetError("AZURE_OPENAI_API_VERSION")
            ELSE Built("AzureOpenAI")
      [] p.settings.provider = "grok" ->
            IF NotSet(env, "GROK_API_KEY") THEN NotSetError("GROK_API_KEY")
            ELSE Built("OpenAI https://api.x.ai/v1")
      [] OTHER ->
            [ok |-> FALSE, client |-> NotBuilt,
             exc |-> Exc("ValueError", <<"Invalid provider: ", p.settings.provider>>)]

\* ModelClient(prompt)
Construct ==
    /\ client = Unbuilt
    /\ LET c == ConstructClient(_prompt, environ)
       IN  /\ client' = c.client
           /\ exc' = c.exc
    /\ UNCHANGED <<registryVars, loaderVars, _prompt, environ, conversed, op, pc, textVars,
                   loopVars, tool_class, tool_instance, result, executed, ret>>

\* The providers a prompt's settings may name: the three the client knows and
\* one it does not.
Providers == {"openai", "azure", "grok", "anthropic"}

\* Prompts without tools for each of these providers.
ClientPrompts ==
    { [MkPrompt(schema, Absent) EXCEPT !.settings.provider = provider] :
        schema \in {Absent, Present(<<"Answer">>)}, provider \in Providers }

\* Before ModelClient(prompt): any of the prompts, any environment.
InitClient ==
    /\ EmptyRegistry
    /\ _prompt \in ClientPrompts
    /\ client = Unbuilt
    /\ environ \in [EnvNames -> EnvValues]
    /\ NoInvocation
    /\ NoLoader

NextClient ==
    \/ Construct
    \/ GetTextCompletionNoTools
    \/ GetStructuredCompletion
    \/ GetStreamedCompletion
    \/ Finish

SpecClient == InitClient /\ [][NextClient]_vars

(***************************************************************************)
(* The registry by itself: registrations, lookups and exports              *)
(***************************************************************************)
\* tool_registry.get_tool(name)
GetTool(name) ==
    /\ pc = "idle"
    /\ LET t == get_tool(_tools, name)
       IN  lookup' = [called |-> TRUE, name |-> name, at |-> _tools, ok |-> t.ok,
                      cls |-> t.cls, exc |-> t.exc]
    /\ UNCHANGED <<_tools, registered, exported, clientVars, loaderVars, op, pc, textVars, loopVars,
                   dispatchVars, ret>>

\* get_pydantic_tools(tool_names)
GetPydanticTools(tool_names) ==
    /\ pc = "idle"
    /\ LET e == create_pydantic_tools(_tools, tool_names)
       IN  exported' = [called |-> TRUE, tool_names |-> tool_names, at |-> _tools,
                        ok |-> e.ok, schemas |-> e.schemas, exc |-> e.exc]
    /\ UNCHANGED <<_tools, registered, lookup, clientVars, loaderVars, op, pc, textVars, loopVars,
                   dispatchVars, ret>>

NextRegistry ==
    \/ \E cls \in RegistryClasses : RegisterTool(cls)
    \/ \E name \in LookupNames : GetTool(name)
    \/ \E tool_names \in NameLists : GetPydanticTools(tool_names)

\* The registry of a process that has one client and invokes nothing on it.
InitRegistry ==
    /\ Init
    /\ _prompt = MkPrompt(Absent, Absent)

SpecRegistry == InitRegistry /\ [][NextRegistry]_vars

(***************************************************************************)
(* PromptLoader: the construction, in two steps (the files are loaded, the *)
(* placeholders are filled), and the getters                               *)
(***************************************************************************)
\* What the loading ends with: the three fields, or the exception raised, and
\* the calls made on the provider up to there.
LoadFailedAfterAllFiles(type, msg, made) ==
    [ok |-> FALSE, exc |-> Exc(type, msg), settings |-> NoSettings, system |-> <<>>,
     user |-> <<>>, accesses |-> <<"list_files", "settings.json", "system.md", "user.md">>]
LoadFailed(type, msg, made) ==
    [ok |-> FALSE, exc |-> Exc(type, msg), settings |-> NoSettings, system |-> <<>>,
     user |-> <<>>, accesses |-> made]
Loaded(settings, system, user, made) ==
    [ok |-> TRUE, exc |-> NoExc, settings |-> settings, system |-> system, user |-> user,
     accesses |-> made]

\* A loader that does not look at list_files.
PromptExistsUnchecked(st) == TRUE

\* not self._provider.list_files() is false
PromptExists(st) == list_files(st) # <<>>

\* A loader for which a missing system.md is an empty text.
SystemPromptOptional(content) == FALSE

\* system_prompt_content is None
SystemPromptMissing(content) == ~content.present

\* __init__ up to the placeholders.
LoadPrompt(st) ==
    IF ~PromptExists(st)
    THEN LoadFailed("ValueError", <<"Prompt does not exist in storage">>, <<"list_files">>)
    ELSE
    LET prompt_settings_content == download_file(st, "settings.json")
        prompt_settings_json == json_loads(decode(prompt_settings_content))
        prompt_settings == PromptSettingsFrom(prompt_settings_json.items)
        system_prompt_content == download_file(st, "system.md")
        user_prompt_content == download_file(st, "user.md")
    IN  IF ~prompt_settings_content.present
        THEN LoadFailed("ValueError", <<"settings.json", " not found in prompt directory">>,
                        <<"list_files", "settings.json">>)
        ELSE IF ~prompt_settings_json.ok
        THEN LoadFailed("JSONDecodeError", <<"Expecting value">>,
                        <<"list_files", "settings.json">>)
        ELSE IF ~prompt_settings.ok
        THEN LoadFailed("TypeError", <<"PromptSettings.__init__() got wrong arguments">>,
                        <<"list_files", "settings.json">>)
        ELSE IF SystemPromptMissing(system_prompt_content)
        THEN LoadFailed("ValueError", <<"system.md", " not found in prompt directory">>,
                        <<"list_files", "settings.json", "system.md">>)
        ELSE Loaded(prompt_settings.settings, decode(system_prompt_content),
                    IF user_prompt_content.present THEN decode(user_prompt_content)
                    ELSE <<>>,
                    <<"list_files", "settings.json", "system.md", "user.md">>)

\* PromptLoader(provider, placeholders, response_schema, tools), lines 27 to 52
Load ==
    /\ loader_pc = "unbuilt"
    /\ LET l == LoadPrompt(storage)
       IN  /\ loader_pc' = IF l.ok THEN "loaded" ELSE "failed"
           /\ _prompt_settings' = l.settings
           /\ _system_prompt' = l.system
           /\ _user_prompt' = l.user
           /\ accesses' = l.accesses
           /\ loader_exc' = l.exc
    /\ UNCHANGED <<storage, placeholders, _response_schema, _loader_tools, probe>>
    /\ UNCHANGED <<registryVars, clientVars, op, pc, textVars, loopVars, dispatchVars, ret>>

\* PromptLoader(...), lines 55 and 56, with _fill_placeholders
FillPlaceholders ==
    /\ loader_pc = "loaded"
    /\ IF Truthy(placeholders)
       THEN /\ _system_prompt' = _fill_placeholders(_system_prompt, placeholders.list)
            /\ _user_prompt' = _fill_placeholders(_user_prompt, placeholders.list)
       ELSE UNCHANGED <<_system_prompt, _user_prompt>>
    /\ loader_pc' = "built"
    /\ UNCHANGED <<storage, placeholders, _response_schema, _loader_tools,
                   _prompt_settings, accesses, loader_exc, probe>>
    /\ UNCHANGED <<registryVars, clientVars, op, pc, textVars, loopVars, dispatchVars, ret>>

\* Prompt.from_definition
from_definition(system_prompt, user_prompt, prompt_settings, response_schema, tools) ==
    [system_prompt |-> system_prompt, user_prompt |-> user_prompt,
     settings |-> prompt_settings, response_schema |-> response_schema, tools |-> tools]

\* loader.get_prompt(): tools is not among the arguments and so is None.
get_prompt ==
    from_definition(_system_prompt, _user_prompt, _prompt_settings, _response_schema,
                    Absent)

\* loader.get_prompt_settings()
get_prompt_settings == _prompt_settings

\* One client that invokes nothing, and an empty registry.
NoClientActivity ==
    /\ EmptyRegistry
    /\ _prompt = MkPrompt(Absent, Absent)
    /\ client = "OpenAI"
    /\ environ = [name \in EnvNames |-> IF name = "OPENAI_API_KEY" THEN "value" ELSE "unset"]
    /\ NoInvocation

\* The placeholders of the loaders constructed over the storages.
LoaderPlaceholders == {Absent, Present(<<>>), Present(<<Item(<<"a">>, <<"X">>)>>)}

\* Before PromptLoader(provider, ...): any of the storages.
InitLoader ==
    /\ NoClientActivity
    /\ storage \in Storages
    /\ placeholders \in LoaderPlaceholders
    /\ _response_schema \in {Absent, Present(<<"Answer">>)}
    /\ _loader_tools \in {Absent, Present(<<"IsWeekend">>)}
    /\ NoLoaderFields

NextLoader ==
    \/ Load
    \/ FillPlaceholders

SpecLoader == InitLoader /\ [][NextLoader]_vars

\* The user text of the loaders whose placeholders are looked at by themselves.
FillUserTexts == {<<"{", "a", "}", "-", "{", "b", "}">>}

\* A loader that has loaded the texts of a MemoryProvider, any text up to
\* MaxTextLen as the system text, and is about to fill its placeholders.
InitFill ==
    /\ NoClientActivity
    /\ storage \in { MemoryProvider(system_prompt,
                                    PromptSettings(StrV(<<"openai">>), StrV(<<"gpt-4">>)),
                                    user_prompt) :
                       system_prompt \in TextsUpTo(MaxTextLen),
                       user_prompt \in FillUserTexts }
    /\ placeholders \in PlaceholderMappings
    /\ _response_schema = Absent
    /\ _loader_tools = Absent
    /\ probe = NoProbe
    /\ loader_pc = "loaded"
    /\ LET l == LoadPrompt(storage)
       IN  /\ _prompt_settings = l.settings
           /\ _system_prompt = l.system
           /\ _user_prompt = l.user
           /\ accesses = l.accesses
           /\ loader_exc = l.exc

NextFill == FillPlaceholders

SpecFill == InitFill /\ [][NextFill]_vars

(***************************************************************************)
(* The operations of a provider, called by themselves                      *)
(***************************************************************************)
\* The names the operations are called with.
ProbeNames == {"settings.json", "system.md", "user.md", "notes.txt", "", " ", " system.md"}

\* What is left alone by a call on the provider.
loadedVars == <<placeholders, _response_schema, _loader_tools, loader_pc,
                _prompt_settings, _system_prompt, _user_prompt, accesses, loader_exc>>

\* provider.list_files()
ListFiles ==
    /\ storage.kind # ""
    /\ probe' = IF Propagates(storage, "list_files")
                THEN Probe("list_files", "", storage, TRUE, <<>>, NoBytes, FALSE)
                ELSE Probe("list_files", "", storage, FALSE, list_files(storage),
                           NoBytes, FALSE)
    /\ UNCHANGED <<storage, loadedVars>>
    /\ UNCHANGED <<registryVars, clientVars, op, pc, textVars, loopVars, dispatchVars, ret>>

\* provider.download_file(file_name)
DownloadFile(file_name) ==
    /\ storage.kind # ""
    /\ probe' = IF Propagates(storage, "download_file")
                THEN Probe("download_file", file_name, storage, TRUE, <<>>, NoBytes, FALSE)
                ELSE Probe("download_file", file_name, storage, FALSE, <<>>,
                           download_file(storage, file_name), FALSE)
    /\ UNCHANGED <<storage, loadedVars>>
    /\ UNCHANGED <<registryVars, clientVars, op, pc, textVars, loopVars, dispatchVars, ret>>

\* provider.file_exists(file_name)
FileExists(file_name) ==
    /\ storage.kind # ""
    /\ probe' = IF Propagates(storage, "file_exists")
                THEN Probe("file_exists", file_name, storage, TRUE, <<>>, NoBytes, FALSE)
                ELSE Probe("file_exists", file_name, storage, FALSE, <<>>, NoBytes,
                           file_exists(storage, file_name))
    /\ UNCHANGED <<storage, loadedVars>>
    /\ UNCHANGED <<registryVars, clientVars, op, pc, textVars, loopVars, dispatchVars, ret>>

\* The directory of a FileSystemProvider is removed after its construction,
\* as shutil.rmtree does it: its files go with it.
RemoveDirectory ==
    /\ storage.kind = "FileSystemProvider"
    /\ storage.io = "ok"
    /\ storage' = [storage EXCEPT !.io = "removed",
                                  !.files = [n \in DOMAIN storage.files |-> NoBytes],
                                  !.other = FALSE]
    /\ UNCHANGED <<probe, loadedVars>>
    /\ UNCHANGED <<registryVars, clientVars, op, pc, textVars, loopVars, dispatchVars, ret>>

\* The operating system or the storage service starts to answer every access
\* with an error, and stops doing so.
IOFails ==
    /\ storage.kind \in {"FileSystemProvider", "BlobStorageProvider"}
    /\ storage.io = "ok"
    /\ storage' = [storage EXCEPT !.io = "fails"]
    /\ UNCHANGED <<probe, loadedVars>>
    /\ UNCHANGED <<registryVars, clientVars, op, pc, textVars, loopVars, dispatchVars, ret>>

IORecovers ==
    /\ storage.io = "fails"
    /\ storage' = [storage EXCEPT !.io = "ok"]
    /\ UNCHANGED <<probe, loadedVars>>
    /\ UNCHANGED <<registryVars, clientVars, op, pc, textVars, loopVars, dispatchVars, ret>>

\* The directories and the containers the operations are called on.
Directories ==
    { [n \in {DirNames[i] : i \in DOMAIN DirNames} |->
          CASE n = "settings.json" -> settings_json
            [] n = "system.md" -> system_md
            [] n = "user.md" -> user_md
            [] OTHER -> blank] :
        settings_json \in {NoBytes, Bytes(json_dumps(PromptSettings(StrV(<<"openai">>),
                                                                     StrV(<<"gpt-4">>))))},
        system_md \in {NoBytes, encode(<<"a">>)},
        user_md \in {NoBytes, encode(<<>>)},
        blank \in {NoBytes, Bytes(<<"b">>)} }

\* The marker of a folder is a blob of no bytes; user.md is a file of no bytes.
BlobContent(name) ==
    CASE name \in {"prompt/", "prompt/sub/", "prompt/user.md"} -> Bytes(<<>>)
      [] name = "prompt/settings.json" ->
            Bytes(json_dumps(PromptSettings(StrV(<<"openai">>), StrV(<<"gpt-4">>))))
      [] OTHER -> Bytes(<<"a">>)

Containers ==
    { [n \in {BlobNames[i] : i \in DOMAIN BlobNames} |->
          IF n \in held THEN BlobContent(n) ELSE NoBytes] :
        held \in SUBSET {BlobNames[i] : i \in DOMAIN BlobNames} }

ProbedStorages ==
    { MemoryProvider(system_prompt, PromptSettings(StrV(<<"openai">>), StrV(<<"gpt-4">>)),
                     user_prompt) :
        system_prompt \in {<<>>, <<"a">>}, user_prompt \in {<<>>, <<"a">>} }
    \cup { FileSystemProvider(files, other) : files \in Directories, other \in BOOLEAN }
    \cup { BlobStorageProvider(blobs) : blobs \in Containers }

InitStorage ==
    /\ NoClientActivity
    /\ storage \in ProbedStorages
    /\ placeholders = Absent
    /\ _response_schema = Absent
    /\ _loader_tools = Absent
    /\ NoLoaderFields

NextStorage ==
    \/ ListFiles
    \/ \E file_name \in ProbeNames : DownloadFile(file_name)
    \/ \E file_name \in ProbeNames : FileExists(file_name)
    \/ RemoveDirectory
    \/ IOFails
    \/ IORecovers

SpecStorage == InitStorage /\ [][NextStorage]_vars

(***************************************************************************)
(* Properties of the dispatch loop                                         *)
(***************************************************************************)
ToolMode == op = "text" /\ _prompt.tools.present

\* run_tools has returned its list to get_text_completion.
RunToolsReturned == ToolMode /\ pc \in {"second_call", "done"}

\* The exception that dispatching req alone ends with, NoExc when there is none.
Failure(req) ==
    LET g == get_tool(_tools, req.function_name)
    IN  IF ~g.ok THEN g.exc
        ELSE LET c == Instantiate(g.cls, req.arguments)
             IN  IF ~c.ok THEN c.exc
                 ELSE LET e == Execute(g.cls, c.inst)
                      IN  IF ~e.ok THEN e.exc ELSE NoExc

\* What execute returns for a request that does not fail.
ExecuteValue(req) ==
    LET cls == get_tool(_tools, req.function_name).cls
    IN  Execute(cls, Instantiate(cls, req.arguments).inst).value

\* C1: run_tools returns one response for each request of the batch, the empty
\* batch included, and the response at each position carries the id of the
\* request at that position, whichever calls fail.
C1_OneResponsePerRequestInOrder ==
    /\ Len(tool_call_responses) <= Len(tool_requests)
    /\ \A i \in DOMAIN tool_call_responses :
          tool_call_responses[i].tool_call_id = tool_requests[i].id
    /\ RunToolsReturned => Len(tool_call_responses) = Len(tool_requests)

\* C1: a batch of two has returned, one call failed and the other succeeded.
C1_Witness ==
    /\ RunToolsReturned
    /\ Len(tool_requests) = 2
    /\ \E i, j \in DOMAIN tool_call_responses :
          /\ tool_call_responses[i].status = "error"
          /\ tool_call_responses[j].status = "success"

\* C2: no exception leaves run_tools (an invocation fails only before the loop
\* is entered); a request whose lookup, validation or execution fails gets a
\* response of status error whose result is the text of that failure; and a
\* registered tool called without a required field gets status error with a
\* non-empty text.
C2_FailuresBecomeErrorResponses ==
    /\ pc = "failed" => idx = 0 /\ tool_call_responses = <<>>
    /\ \A i \in DOMAIN tool_call_responses :
          LET req == tool_requests[i]
              rsp == tool_call_responses[i]
          IN  /\ rsp.status \in {"success", "error"}
              /\ Failure(req) # NoExc =>
                    /\ rsp.status = "error"
                    /\ rsp.result = StrV(Failure(req).msg)
              /\ (Registered(_tools, req.function_name) /\ ~HasKey(req.arguments, <<"date_str">>)) =>
                    /\ rsp.status = "error"
                    /\ rsp.result.t = "str"
                    /\ rsp.result.s # <<>>

\* C2: run_tools returned after a registered tool was called without its
\* required field, after a lookup failed and after an execution failed.
C2_Witness ==
    /\ RunToolsReturned
    /\ \E i \in DOMAIN tool_call_responses :
          /\ Registered(_tools, tool_requests[i].function_name)
          /\ tool_requests[i].arguments = <<>>
          /\ tool_call_responses[i].status = "error"
    /\ \E i \in DOMAIN tool_call_responses :
          /\ Registered(_tools, tool_requests[i].function_name)
          /\ HasKey(tool_requests[i].arguments, <<"date_str">>)
          /\ GetKey(tool_requests[i].arguments, <<"date_str">>) = StrV(<<"soon">>)
          /\ tool_call_responses[i].status = "error"

\* The response of a batch that holds req alone.
SoloResponse(req) ==
    IF Failure(req) = NoExc
    THEN [tool_call_id |-> req.id, function_name |-> req.function_name,
          arguments |-> req.arguments, result |-> ExecuteValue(req), status |-> "success"]
    ELSE [tool_call_id |-> req.id, function_name |-> req.function_name,
          arguments |-> req.arguments, result |-> StrV(Failure(req).msg), status |-> "error"]

\* C3: the response to a request is the one it gets when dispatched alone,
\* whatever the other requests of the batch are and whether they fail; a failing
\* request does not keep a later request from its response.
C3_FailureIsolation ==
    /\ \A i \in DOMAIN tool_call_responses :
          tool_call_responses[i] = SoloResponse(tool_requests[i])
    /\ RunToolsReturned =>
          \A i \in DOMAIN tool_requests :
              /\ i \in DOMAIN tool_call_responses
              /\ Failure(tool_requests[i]) = NoExc => tool_call_responses[i].status = "success"

\* C3: a request succeeded after the request before it had failed in the
\* tool's execution.
C3_Witness ==
    /\ RunToolsReturned
    /\ \E i, j \in DOMAIN tool_call_responses :
          /\ i < j
          /\ tool_call_responses[i].status = "error"
          /\ Registered(_tools, tool_requests[i].function_name)
          /\ executed = <<i, j>>
          /\ tool_call_responses[j].status = "success"

\* C4: a request for a registered tool with valid arguments whose execution does
\* not fail gets one response: status success, the request's name, arguments and
\* id, and the value execute returned.
C4_SuccessResponse ==
    /\ \A i \in DOMAIN tool_call_responses :
          LET req == tool_requests[i]
              rsp == tool_call_responses[i]
          IN  Failure(req) = NoExc =>
                /\ rsp.status = "success"
                /\ rsp.function_name = req.function_name
                /\ rsp.arguments = req.arguments
                /\ rsp.tool_call_id = req.id
                /\ rsp.result = ExecuteValue(req)
    /\ (RunToolsReturned /\ Len(tool_requests) = 1) => Len(tool_call_responses) = 1

\* C4: a batch of one request, IsWeekend on a Saturday, has returned True.
C4_Witness ==
    /\ RunToolsReturned
    /\ Len(tool_requests) = 1
    /\ tool_requests[1].function_name = "IsWeekend"
    /\ tool_call_responses[1].status = "success"
    /\ tool_call_responses[1].result = BoolV(TRUE)

\* The response to a request for a name that is not registered has status error
\* and a text that mentions the name.
C5_UnknownToolStatePart ==
    \A i \in DOMAIN tool_call_responses :
        LET req == tool_requests[i]
            rsp == tool_call_responses[i]
        IN  ~Registered(_tools, req.function_name) =>
              /\ rsp.status = "error"
              /\ rsp.result.t = "str"
              /\ Mentions(rsp.result.s, req.function_name)

\* C5: a request for a name that is not registered gets status error with a
\* text that mentions the name, and the registry's entries are the same after
\* every step of the dispatch as before it.
C5_UnknownTool ==
    /\ []C5_UnknownToolStatePart
    /\ [][(pc \in {"run_tools", "get_tool", "instantiate", "execute", "return", "except"})
            => (_tools' = _tools)]_vars

\* C5: with one tool registered, a request for another name was answered.
C5_Witness ==
    /\ _tools # <<>>
    /\ \E i \in DOMAIN tool_call_responses :
          /\ ~Registered(_tools, tool_requests[i].function_name)
          /\ tool_call_responses[i].status = "error"

(***************************************************************************)
(* Properties of the orchestrator                                          *)
(***************************************************************************)
\* The two base messages, written out.
SystemThenUser ==
    << [role |-> "system", content |-> _prompt.system_prompt, tool_call_id |-> NoId,
        tool_calls |-> Absent],
       [role |-> "user", content |-> _prompt.user_prompt, tool_call_id |-> NoId,
        tool_calls |-> Absent] >>

\* C6: get_text_completion on a prompt without tools makes one chat-completion
\* call, with the system and the user message and no tools, never enters the
\* dispatch loop, and returns the content of that call's reply.
C6_NoToolsSingleCall ==
    (op = "text" /\ ~_prompt.tools.present) =>
        /\ pc = "done"
        /\ Len(calls) = 1
        /\ calls[1].api = "chat.completions.create"
        /\ calls[1].messages = SystemThenUser
        /\ ~calls[1].tools.present
        /\ ~calls[1].stream
        /\ Len(replies) = 1
        /\ ret = [kind |-> "value", value |-> replies[1].content]
        /\ tool_requests = <<>>
        /\ tool_call_responses = <<>>
        /\ executed = <<>>
        /\ idx = 0

\* C6: a text completion without tools has returned.
C6_Witness ==
    /\ op = "text"
    /\ ~_prompt.tools.present
    /\ pc = "done"
    /\ ret.kind = "value"

\* The arguments text that is no JSON.
MalformedText == <<LBrace, DateKey, Colon>>

MalformedPayload ==
    /\ ToolMode
    /\ replies[1].tool_calls.present
    /\ \E i \in DOMAIN replies[1].tool_calls.list :
          replies[1].tool_calls.list[i].arguments = MalformedText

\* What holds of a tool-mode invocation at each step and once it has returned:
\* the second call is made when run_tools has returned and not before; its
\* messages are the base messages, the first reply, and one tool message for each
\* response in order (errors too) with its id and the text of its result; both
\* calls carry the prompt's tools; the value returned is the second reply's content.
ToolModeCalls ==
    ToolMode =>
        /\ Len(calls) \in {1, 2}
        /\ calls[1].messages = SystemThenUser
        /\ calls[1].tools = _prompt.tools
        /\ (Len(calls) = 2) <=> (pc = "done")
        /\ pc = "done" =>
              /\ Len(tool_call_responses) = Len(tool_requests)
              /\ Len(replies) = 2
              /\ Len(replies[1].tool_calls.list) = Len(tool_requests)
              /\ Len(calls[2].messages) = 3 + Len(replies[1].tool_calls.list)
              /\ SubSeq(calls[2].messages, 1, 2) = SystemThenUser
              /\ calls[2].messages[3] = replies[1]
              /\ \A i \in DOMAIN tool_call_responses :
                    /\ calls[2].messages[3 + i].role = "tool"
                    /\ calls[2].messages[3 + i].tool_call_id = tool_call_responses[i].tool_call_id
                    /\ calls[2].messages[3 + i].tool_call_id = replies[1].tool_calls.list[i].id
                    /\ calls[2].messages[3 + i].content = Str(tool_call_responses[i].result)
                    /\ calls[2].messages[3 + i].content.t = "str"
              /\ calls[2].tools = _prompt.tools
              /\ calls[2].api = "chat.completions.create"
              /\ ret = [kind |-> "value", value |-> replies[2].content]

\* C7: get_text_completion on a prompt with tools makes two calls, the second
\* after run_tools returned, with the messages, the tools and the returned value
\* as in ToolModeCalls.  Replies with malformed arguments, which are fatal by
\* design, are left aside: every other invocation goes on to its second call.
C7_ToolModeTwoCalls ==
    /\ ToolModeCalls
    /\ (ToolMode /\ ~MalformedPayload) => pc # "failed"

\* The first reply of a tool-mode invocation holds no tool call: the list is
\* empty or is absent.
ZeroToolCalls ==
    /\ ToolMode
    /\ \/ ~replies[1].tool_calls.present
       \/ replies[1].tool_calls.list = <<>>

\* C8: when the first reply to a tool-bearing prompt holds no tool call, the list
\* being empty or absent, the invocation does not fail: it runs the loop on an
\* empty batch and makes the second call with the base messages and the first
\* assistant message, and returns its text.
C8_ZeroToolCallsStillSecondCall ==
    ZeroToolCalls =>
        /\ pc # "failed"
        /\ tool_requests = <<>>
        /\ pc = "done" =>
              /\ Len(calls) = 2
              /\ calls[2].messages = Append(SystemThenUser, replies[1])
              /\ ret = [kind |-> "value", value |-> replies[2].content]

\* C9: when the arguments of a tool call of the first reply are malformed JSON,
\* get_text_completion raises: no response is produced, no tool of the batch is
\* executed, also not one placed before the malformed call, and there is no second
\* transport call.
C9_MalformedPayloadIsFatal ==
    MalformedPayload =>
        /\ pc \in {"requests", "failed"}
        /\ pc = "failed" => ret.kind = "raise" /\ exc.type = "JSONDecodeError"
        /\ tool_requests = <<>>
        /\ tool_call_responses = <<>>
        /\ executed = <<>>
        /\ idx = 0
        /\ Len(calls) = 1

\* C9: the invocation failed on a reply whose first call was well formed, for a
\* registered tool, and whose second call was malformed.
C9_Witness ==
    /\ MalformedPayload
    /\ pc = "failed"
    /\ Len(replies[1].tool_calls.list) = 2
    /\ Registered(_tools, replies[1].tool_calls.list[1].name)
    /\ json_loads(replies[1].tool_calls.list[1].arguments).ok
    /\ replies[1].tool_calls.list[2].arguments = MalformedText

\* C10: get_structured_completion on a prompt without a response schema raises
\* before any transport call: no call, no tool execution.
C10_StructuredNeedsSchema ==
    (op = "structured" /\ ~_prompt.response_schema.present) =>
        /\ pc = "failed"
        /\ ret.kind = "raise"
        /\ exc.type = "ValueError"
        /\ calls = <<>>
        /\ replies = <<>>
        /\ executed = <<>>

\* C10: a structured completion on a prompt without a schema has failed.
C10_Witness ==
    /\ op = "structured"
    /\ ~_prompt.response_schema.present
    /\ pc = "failed"

(***************************************************************************)
(* Properties of the structured and the streamed completion                *)
(***************************************************************************)
\* C11: get_structured_completion on a prompt with a schema, and
\* get_streamed_completion, make exactly one transport call, with the two base
\* messages and without tools, and never enter the dispatch loop, also when the
\* prompt declares tools; the structured one returns the parsed object of the
\* reply and the streamed one the stream handle as the transport gave it.
C11_StructuredAndStreamedSingleCall ==
    ((op = "structured" /\ _prompt.response_schema.present) \/ op = "streamed") =>
        /\ pc = "done"
        /\ Len(calls) = 1
        /\ calls[1].messages = SystemThenUser
        /\ ~calls[1].tools.present
        /\ calls[1].api = (IF op = "structured" THEN "beta.chat.completions.parse"
                                                ELSE "chat.completions.create")
        /\ calls[1].stream = (op = "streamed")
        /\ calls[1].response_format = (IF op = "structured" THEN _prompt.response_schema
                                                             ELSE Absent)
        /\ tool_requests = <<>>
        /\ tool_call_responses = <<>>
        /\ executed = <<>>
        /\ idx = 0
        /\ Len(replies) = 1
        /\ ret = [kind |-> "value", value |-> replies[1].content]

\* C11: a structured and a streamed completion have returned on a prompt that
\* declares a tool which is registered.
C11_Witness ==
    /\ _prompt.tools = Present(<<"IsWeekend">>)
    /\ Registered(_tools, "IsWeekend")
    /\ _prompt.response_schema.present
    /\ op \in {"structured", "streamed"}
    /\ pc = "done"
    /\ ret.value \in {ObjV("parsed"), ObjV("stream2")}

(***************************************************************************)
(* Properties of the construction of a client                              *)
(***************************************************************************)
SupportedProviders == {"openai", "azure", "grok"}

\* The environment values a provider cannot do without.
RequiredEnv(provider) ==
    CASE provider = "openai" -> {"OPENAI_API_KEY"}
      [] provider = "azure" -> {"AZURE_OPENAI_ENDPOINT_URL", "AZURE_OPENAI_API_KEY",
                                "AZURE_OPENAI_API_VERSION"}
      [] provider = "grok" -> {"GROK_API_KEY"}
      [] OTHER -> {}

UnsupportedProvider == _prompt.settings.provider \notin SupportedProviders

MissingCredential ==
    /\ ~UnsupportedProvider
    /\ \E name \in RequiredEnv(_prompt.settings.provider) : environ[name] # "value"

\* C12: when the provider of the prompt is none of openai, azure and grok, or
\* is one of them while a value it requires is missing from the environment,
\* the construction fails with a ValueError, which for an unsupported provider
\* names the offending value; there is no client afterwards, and no operation
\* is ever invoked and no transport call ever made.
C12_ConstructionFails ==
    (UnsupportedProvider \/ MissingCredential) =>
        /\ ~HasClient
        /\ op = ""
        /\ calls = <<>>
        /\ client # Unbuilt =>
              /\ client = NotBuilt
              /\ exc.type = "ValueError"
              /\ UnsupportedProvider => Mentions(exc.msg, _prompt.settings.provider)
              /\ MissingCredential =>
                    \E name \in RequiredEnv(_prompt.settings.provider) :
                        /\ environ[name] # "value"
                        /\ Mentions(exc.msg, name)

\* C12: the construction has failed for the azure provider in an environment
\* that holds the endpoint and the key but an empty API version.
C12_Witness ==
    /\ client = NotBuilt
    /\ _prompt.settings.provider = "azure"
    /\ environ["AZURE_OPENAI_ENDPOINT_URL"] = "value"
    /\ environ["AZURE_OPENAI_API_KEY"] = "value"
    /\ environ["AZURE_OPENAI_API_VERSION"] = "empty"

(***************************************************************************)
(* Properties of the registry                                              *)
(***************************************************************************)
\* Every name is in the registry once, and resolves to the class that
\* register_tool was last given under it.
RegistryHoldsLastRegistered ==
    /\ \A i, j \in DOMAIN _tools : _tools[i].name = _tools[j].name => i = j
    /\ \A name \in LookupNames :
          IF registered[name] = ""
          THEN ~Registered(_tools, name) /\ ~get_tool(_tools, name).ok
          ELSE /\ Mentions(get_tool_names(_tools), name)
               /\ get_tool(_tools, name).ok
               /\ get_tool(_tools, name).cls = registered[name]
               /\ ClassName(registered[name]) = name

\* C13: register_tool never fails and inserts or overwrites the entry under the
\* name of the class; get_tool(name) returns the class most recently registered
\* under that name; each name is once in get_tool_names; nothing is ever removed,
\* so a name that resolves in one state resolves in every later state.
C13_RegisterAndResolve ==
    /\ []RegistryHoldsLastRegistered
    /\ [][\A name \in LookupNames :
            Registered(_tools, name) => Registered(_tools', name)]_vars
    /\ [][\A cls \in RegistryClasses :
            (registered' # registered /\ registered'[ClassName(cls)] = cls
                /\ registered[ClassName(cls)] # cls)
            => /\ get_tool(_tools', ClassName(cls)).cls = cls
               /\ Len(_tools') = Len(_tools)
                                + (IF Registered(_tools, ClassName(cls)) THEN 0 ELSE 1)
               /\ \A name \in LookupNames \ {ClassName(cls)} :
                      get_tool(_tools', name).ok = get_tool(_tools, name).ok
                      /\ get_tool(_tools', name).cls = get_tool(_tools, name).cls]_vars

\* C13: IsWeekend was registered and resolved, then registered again with
\* another class of that name, which is the one the registry now holds, in the
\* place of the first, with GetDayOfWeek registered after it.
C13_Witness ==
    /\ lookup.called
    /\ lookup.name = "IsWeekend"
    /\ lookup.cls = "IsWeekend"
    /\ Len(_tools) = 2
    /\ _tools[1] = Entry("IsWeekend", ReloadedIsWeekend)
    /\ _tools[2].name = "GetDayOfWeek"
    /\ registered["IsWeekend"] = ReloadedIsWeekend

\* The part of the message of a failed lookup that follows the name looked up
\* and the words after it.
ListedNames(msg) == SubSeq(msg, 4, Len(msg))

\* What the last get_tool ended with, against the registry it was called on.
LookupOutcome ==
    lookup.called =>
        IF Registered(lookup.at, lookup.name)
        THEN /\ lookup.ok
             /\ lookup.exc = NoExc
             /\ \E i \in DOMAIN lookup.at : lookup.at[i] = Entry(lookup.name, lookup.cls)
        ELSE /\ ~lookup.ok
             /\ lookup.exc.type = "ValueError"
             /\ Mentions(lookup.exc.msg, lookup.name)
             /\ Mentions(lookup.exc.msg, "' not found. Available tools: ")
             /\ \A name \in LookupNames :
                   Mentions(ListedNames(lookup.exc.msg), name)
                       <=> Registered(lookup.at, name)

\* C14: get_tool(name) on a name that is not registered fails with the not-found
\* error (a ValueError), whose message names the registered names of that
\* moment and no other, and the failed lookup leaves the registry as it was; on
\* a registered name it returns the class of the entry and does not fail.
C14_LookupFailureListsNames ==
    /\ []LookupOutcome
    /\ [][lookup' # lookup => (_tools' = _tools /\ lookup'.at = _tools)]_vars

\* C14: a lookup of a name that is not registered has failed on a registry that
\* holds two names.
C14_Witness ==
    /\ lookup.called
    /\ lookup.name = "Subtract"
    /\ ~lookup.ok
    /\ Len(lookup.at) = 2
    /\ _tools = lookup.at

\* What the last create_pydantic_tools ended with, against the registry it was
\* called on.
ExportOutcome ==
    exported.called =>
        LET at == exported.at
            names == exported.tool_names
        IN  IF ~names.present
            THEN /\ exported.ok
                 /\ Len(exported.schemas) = Len(at)
                 /\ \A i \in DOMAIN at :
                       exported.schemas[i] = pydantic_function_tool(at[i].cls)
            ELSE IF \A i \in DOMAIN names.list : Registered(at, names.list[i])
            THEN /\ exported.ok
                 /\ Len(exported.schemas) = Len(names.list)
                 /\ \A i \in DOMAIN names.list :
                       /\ exported.schemas[i].name = names.list[i]
                       /\ exported.schemas[i]
                            = pydantic_function_tool(get_tool(at, names.list[i]).cls)
            ELSE /\ ~exported.ok
                 /\ exported.schemas = <<>>
                 /\ \E i \in DOMAIN names.list :
                       /\ ~Registered(at, names.list[i])
                       /\ exported.exc = get_tool(at, names.list[i]).exc

\* C15: create_pydantic_tools / get_pydantic_tools without names returns one
\* schema for each registered tool; with a list of names it returns one schema
\* for each requested name, in the requested order, and nothing for the empty
\* list; when a requested name is not registered it fails with the error of
\* get_tool and returns no partial result; the registry is unchanged throughout.
C15_ExportSchemas ==
    /\ []ExportOutcome
    /\ [][exported' # exported => (_tools' = _tools /\ exported'.at = _tools)]_vars

\* C15: the empty list of names was exported from a registry of two tools, and
\* nothing came back.
C15_Witness ==
    /\ exported.called
    /\ exported.tool_names = Present(<<>>)
    /\ exported.schemas = <<>>
    /\ Len(exported.at) = 2

(***************************************************************************)
(* Properties of the construction of a loader                              *)
(***************************************************************************)
\* The construction is over: it raised, or the loader exists.
Constructed == loader_pc \in {"failed", "built"}

\* C16: when list_files() of the provider returns the empty list, PromptLoader
\* fails with a ValueError, also when download_file would return content for
\* settings.json and system.md; none of the loader's fields is set and there is
\* never a loader to get a Prompt from.
C16_EmptyListingFails ==
    list_files(storage) = <<>> =>
        /\ loader_pc \in {"unbuilt", "failed"}
        /\ loader_pc = "failed" =>
              /\ loader_exc.type = "ValueError"
              /\ Mentions(loader_exc.msg, "Prompt does not exist in storage")
              /\ _prompt_settings = NoSettings
              /\ _system_prompt = <<>>
              /\ _user_prompt = <<>>

\* C16: the construction has failed over a provider that lists nothing while
\* its download_file returns well-formed settings and a system text.
C16_Witness ==
    /\ loader_pc = "failed"
    /\ list_files(storage) = <<>>
    /\ download_file(storage, "settings.json").present
    /\ PromptSettingsFrom(json_loads(decode(download_file(storage, "settings.json"))).items).ok
    /\ download_file(storage, "system.md").present

\* settings.json is there and holds settings.
SettingsWellFormed ==
    LET content == download_file(storage, "settings.json")
    IN  /\ content.present
        /\ json_loads(decode(content)).ok
        /\ PromptSettingsFrom(json_loads(decode(content)).items).ok

\* C17: over a provider that lists files, the construction fails with the
\* settings-not-found error when settings.json is absent, and with another, the
\* system-not-found error, when settings.json is there (and holds settings) but
\* system.md is absent, as for a FileSystemProvider whose directory lacks only
\* system.md and whose list_files still returns the other files; when only
\* user.md is absent the construction succeeds with user_prompt == "".
C17_MissingFiles ==
    (list_files(storage) # <<>> /\ loader_pc # "unbuilt") =>
        /\ ~download_file(storage, "settings.json").present =>
              /\ loader_pc = "failed"
              /\ loader_exc.type = "ValueError"
              /\ Mentions(loader_exc.msg, "settings.json")
              /\ ~Mentions(loader_exc.msg, "system.md")
        /\ (SettingsWellFormed /\ ~download_file(storage, "system.md").present) =>
              /\ loader_pc = "failed"
              /\ loader_exc.type = "ValueError"
              /\ Mentions(loader_exc.msg, "system.md")
              /\ ~Mentions(loader_exc.msg, "settings.json")
        /\ (SettingsWellFormed /\ download_file(storage, "system.md").present
                /\ ~download_file(storage, "user.md").present) =>
              /\ loader_pc \in {"loaded", "built"}
              /\ loader_exc = NoExc
              /\ _user_prompt = <<>>
              /\ get_prompt.user_prompt = <<>>

\* C17: the construction has failed over a directory that holds settings.json
\* and user.md, both listed, and no system.md.
C17_Witness ==
    /\ storage.kind = "FileSystemProvider"
    /\ loader_pc = "failed"
    /\ SettingsWellFormed
    /\ Mentions(list_files(storage), "settings.json")
    /\ Mentions(list_files(storage), "user.md")
    /\ ~Mentions(list_files(storage), "system.md")
    /\ Mentions(loader_exc.msg, "system.md")

\* C18: a loader constructed without placeholders over a MemoryProvider built
\* from a system text, a user text and settings gives these back: get_prompt()
\* has the system text, the user text, and the provider and the model of the
\* settings, and get_prompt_settings() equals the settings supplied.
C18_MemoryRoundTrip ==
    storage.kind = "MemoryProvider" =>
        /\ loader_pc # "failed"
        /\ (loader_pc = "built" /\ ~Truthy(placeholders)) =>
              /\ get_prompt.system_prompt = storage._system_prompt
              /\ get_prompt.user_prompt = storage._user_prompt
              /\ get_prompt.settings.provider = storage._prompt_settings.provider
              /\ get_prompt.settings.model = storage._prompt_settings.model
              /\ get_prompt_settings = storage._prompt_settings

\* C18: a loader has been constructed without placeholders over a
\* MemoryProvider whose system text holds a token and whose user text is not
\* empty, with settings for azure.
C18_Witness ==
    /\ storage.kind = "MemoryProvider"
    /\ loader_pc = "built"
    /\ placeholders = Absent
    /\ storage._system_prompt = <<"{", "a", "}">>
    /\ storage._user_prompt = <<"a">>
    /\ storage._prompt_settings.provider = StrV(<<"azure">>)

(***************************************************************************)
(* Properties of the placeholder substitution                              *)
(***************************************************************************)
\* The text in which every occurrence of the token of every key of the mapping
\* is replaced by the value of the key and everything else is left as it is.
\* The keys hold no brace, so no two occurrences overlap.
RECURSIVE EveryTokenReplaced(_, _, _)
EveryTokenReplaced(text, mapping, i) ==
    IF i > Len(text) THEN <<>>
    ELSE IF \E m \in DOMAIN mapping : StartsWithAt(text, Token(mapping[m].k), i)
    THEN LET m == CHOOSE n \in DOMAIN mapping : StartsWithAt(text, Token(mapping[n].k), i)
         IN  mapping[m].v \o EveryTokenReplaced(text, mapping, i + Len(Token(mapping[m].k)))
    ELSE <<text[i]>> \o EveryTokenReplaced(text, mapping, i + 1)

\* No value of the mapping holds a brace.
PlainValues(mapping) ==
    \A m \in DOMAIN mapping : \A c \in DOMAIN mapping[m].v : mapping[m].v[c] \notin {"{", "}"}

\* Every "{" of the text opens a token: the next brace after it is a "}".
NoStrayBrace(text) ==
    \A j \in DOMAIN text :
        text[j] = "{" =>
            \E k \in (j + 1)..Len(text) :
                /\ text[k] = "}"
                /\ \A c \in (j + 1)..(k - 1) : text[c] \notin {"{", "}"}

\* The substitution as stated, for the texts in which every "{" opens a token.
SubstitutionWithoutStrayBrace ==
    (loader_pc = "built" /\ Truthy(placeholders) /\ PlainValues(placeholders.list)) =>
        /\ NoStrayBrace(storage._system_prompt) =>
              _system_prompt
                  = EveryTokenReplaced(storage._system_prompt, placeholders.list, 1)
        /\ NoStrayBrace(storage._user_prompt) =>
              _user_prompt = EveryTokenReplaced(storage._user_prompt, placeholders.list, 1)

\* C19: in the system and in the user text, every occurrence of a token {name}
\* whose name is a key of the mapping is replaced by the value of the key, and
\* the tokens whose name is no key are left as they are; with an empty or absent
\* mapping the texts are unchanged.  Values that hold a brace are left aside.
C19_Substitution ==
    loader_pc = "built" =>
        /\ ~Truthy(placeholders) =>
              /\ _system_prompt = storage._system_prompt
              /\ _user_prompt = storage._user_prompt
        /\ (Truthy(placeholders) /\ PlainValues(placeholders.list)) =>
              /\ _system_prompt
                    = EveryTokenReplaced(storage._system_prompt, placeholders.list, 1)
              /\ _user_prompt
                    = EveryTokenReplaced(storage._user_prompt, placeholders.list, 1)

\* The items of a mapping in the order perm.
Reordered(mapping, perm) == [i \in DOMAIN mapping |-> mapping[perm[i]]]

\* C20: the substituted texts do not depend on the order of the items of the
\* mapping: filling the texts with the same items in any other order gives the
\* same system and user text; {a: "X", b: "Y"} on "{a}-{b}" gives "X-Y".
C20_OrderIndependent ==
    (loader_pc = "built" /\ Truthy(placeholders)) =>
        /\ \A perm \in Permutations(DOMAIN placeholders.list) :
              /\ _system_prompt
                    = _fill_placeholders(storage._system_prompt,
                                         Reordered(placeholders.list, perm))
              /\ _user_prompt
                    = _fill_placeholders(storage._user_prompt,
                                         Reordered(placeholders.list, perm))
        /\ (storage._user_prompt = <<"{", "a", "}", "-", "{", "b", "}">>
                /\ HasKey(placeholders.list, <<"a">>)
                /\ HasKey(placeholders.list, <<"b">>)
                /\ PlainValues(placeholders.list))
            => _user_prompt = <<"X", "-", "Y">>

\* C20: the user text "{a}-{b}" has become "X-Y", and the system text "{b}a"
\* "Ya", with the mapping whose items are b, then a.
C20_Witness ==
    /\ loader_pc = "built"
    /\ storage._user_prompt = <<"{", "a", "}", "-", "{", "b", "}">>
    /\ storage._system_prompt = <<"{", "b", "}", "a">>
    /\ placeholders = Present(<<Item(<<"b">>, <<"Y">>), Item(<<"a">>, <<"X">>)>>)
    /\ _user_prompt = <<"X", "-", "Y">>
    /\ _system_prompt = <<"Y", "a">>

(***************************************************************************)
(* Properties of the getters of a loader                                   *)
(***************************************************************************)
\* C21: get_prompt() of a constructed loader returns a Prompt whose
\* response_schema and tools are the response schema and the tool list the
\* constructor was given, with the loaded texts and the parsed settings.
C21_GetPromptPassthrough ==
    loader_pc = "built" =>
        /\ get_prompt.response_schema = _response_schema
        /\ get_prompt.tools = _loader_tools
        /\ get_prompt.system_prompt = _system_prompt
        /\ get_prompt.user_prompt = _user_prompt
        /\ get_prompt.settings = _prompt_settings

(***************************************************************************)
(* Properties of the storage providers                                     *)
(***************************************************************************)
\* A name that is empty or holds blanks only.
BlankName(file_name) == file_name \in {"", " "}

\* The artifact a provider holds under a name: what a MemoryProvider was
\* constructed with, the entry of the directory, the blob of the working
\* folder under the name without the blanks around it.
Artifact(st, file_name) ==
    CASE st.kind = "MemoryProvider" ->
            (CASE file_name = "settings.json" -> Bytes(json_dumps(st._prompt_settings))
               [] file_name = "system.md" -> Bytes(st._system_prompt)
               [] file_name = "user.md" /\ st._user_prompt # <<>> -> Bytes(st._user_prompt)
               [] OTHER -> NoBytes)
      [] st.kind = "BlobStorageProvider" ->
            LET full == "prompt/" \o strip(file_name)
            IN  IF full \in DOMAIN st.files THEN st.files[full] ELSE NoBytes
      [] OTHER ->
            CASE file_name \in DOMAIN st.files -> st.files[file_name]
              [] file_name = "notes.txt" /\ st.other -> Bytes(<<"b">>)
              [] OTHER -> NoBytes

\* The cases in which download_file is to return None and file_exists False.
NothingToGive(st, file_name) ==
    \/ BlankName(file_name)
    \/ st.io # "ok"
    \/ ~Artifact(st, file_name).present

\* C22: for a MemoryProvider, a FileSystemProvider and a BlobStorageProvider,
\* download_file(name) returns None when the artifact does not exist, when the
\* I/O fails and when the name is empty or blank, and the stored bytes
\* otherwise; file_exists(name) returns False in the same cases and True
\* otherwise; neither raises.
C22_DownloadAndExists ==
    /\ probe.op = "download_file" =>
          /\ ~probe.raised
          /\ probe.content = IF NothingToGive(probe.at, probe.name) THEN NoBytes
                             ELSE Artifact(probe.at, probe.name)
    /\ probe.op = "file_exists" =>
          /\ ~probe.raised
          /\ probe.found = ~NothingToGive(probe.at, probe.name)

\* The same for every name but the blank one of a FileSystemProvider.
DownloadAndExistsButBlank ==
    (probe.at.kind = "FileSystemProvider" /\ probe.name = " ") \/ C22_DownloadAndExists

\* C23: list_files() never propagates a failure of the underlying I/O: it
\* returns an empty sequence instead, and download_file returns None, as for
\* a FileSystemProvider whose directory was removed after its construction,
\* which is what they return when nothing is stored.
C23_ListingSwallowsFailure ==
    /\ probe.op = "list_files" =>
          /\ ~probe.raised
          /\ probe.at.io # "ok" => probe.names = <<>>
    /\ (probe.op = "download_file" /\ probe.at.io # "ok") =>
          /\ ~probe.raised
          /\ probe.content = NoBytes

\* list_files() was called on a FileSystemProvider whose directory was removed.
C23_Witness ==
    /\ probe.op = "list_files"
    /\ probe.at.kind = "FileSystemProvider"
    /\ probe.at.io = "removed"
    /\ probe.names = <<>>
    /\ storage = probe.at

\* The names a MemoryProvider is to hold.
MemoryNames(st) ==
    {"settings.json", "system.md"}
    \cup (IF st._user_prompt # <<>> THEN {"user.md"} ELSE {})

\* C24: a MemoryProvider always lists, returns and reports settings.json and
\* system.md, does so for user.md exactly when its user text is not empty, and
\* for no other name; for every name file_exists(name), download_file(name)
\* not being None and the name being among those of list_files() agree.
C24_MemoryProviderAgreement ==
    /\ storage.kind = "MemoryProvider" =>
          \A name \in ProbeNames :
              /\ file_exists(storage, name) <=> download_file(storage, name).present
              /\ file_exists(storage, name) <=> Mentions(list_files(storage), name)
              /\ file_exists(storage, name) <=> name \in MemoryNames(storage)
    /\ probe.at.kind = "MemoryProvider" =>
          /\ probe.op = "list_files" =>
                {probe.names[i] : i \in DOMAIN probe.names} = MemoryNames(probe.at)
          /\ probe.op = "download_file" =>
                (probe.content.present <=> probe.name \in MemoryNames(probe.at))
          /\ probe.op = "file_exists" =>
                (probe.found <=> probe.name \in MemoryNames(probe.at))

\* file_exists("user.md") was called on a MemoryProvider without a user text.
C24_Witness ==
    /\ probe.op = "file_exists"
    /\ probe.name = "user.md"
    /\ probe.at.kind = "MemoryProvider"
    /\ probe.at._user_prompt = <<>>
    /\ probe.at._system_prompt = <<>>
    /\ ~probe.found
    /\ file_exists(storage, "system.md")
    /\ list_files(storage) = <<"settings.json", "system.md">>

\* The markers of folders under the working folder, and the files under it.
FolderMarkers == {"prompt/", "prompt/sub/"}
WorkingFolderFiles ==
    {"prompt/ ", "prompt/notes.txt", "prompt/settings.json", "prompt/system.md",
     "prompt/user.md"}

\* C25: list_files() of the blob store returns no zero-byte marker of a folder
\* under the working folder, neither the marker of the working folder itself
\* nor that of a folder nested in it, and returns every file under it.
C25_MarkersExcluded ==
    (probe.op = "list_files" /\ probe.at.kind = "BlobStorageProvider" /\ probe.at.io = "ok") =>
        /\ \A marker \in FolderMarkers : ~Mentions(probe.names, marker)
        /\ \A name \in WorkingFolderFiles :
              probe.at.files[name].present => Mentions(probe.names, name)

\* The same without the marker of a nested folder.
OwnMarkerExcluded ==
    (probe.op = "list_files" /\ probe.at.kind = "BlobStorageProvider" /\ probe.at.io = "ok") =>
        /\ ~Mentions(probe.names, "prompt/")
        /\ ~Mentions(probe.names, "other/system.md")
        /\ \A name \in WorkingFolderFiles :
              probe.at.files[name].present <=> Mentions(probe.names, name)

(***************************************************************************)
(* Properties of the accesses of a loader to its provider                  *)
(***************************************************************************)
\* The accesses of a construction that fails nowhere.
AllAccesses == <<"list_files", "settings.json", "system.md", "user.md">>

\* C26: the construction of a PromptLoader calls list_files, then
\* download_file for settings.json, system.md and user.md, each once and in
\* this order, downloads nothing else, and stops at the first failure: after
\* an empty listing nothing is downloaded, and after a failure on
\* settings.json neither system.md nor user.md is, so that the error of the
\* settings comes first.
C26_AccessOrder ==
    /\ loader_pc = "unbuilt" => accesses = <<>>
    /\ loader_pc # "unbuilt" =>
          /\ accesses # <<>>
          /\ accesses = SubSeq(AllAccesses, 1, Len(accesses))
          /\ list_files(storage) = <<>> => accesses = <<"list_files">>
          /\ (list_files(storage) # <<>> /\ ~SettingsWellFormed) =>
                /\ accesses = <<"list_files", "settings.json">>
                /\ loader_pc = "failed"
                /\ ~download_file(storage, "settings.json").present =>
                      Mentions(loader_exc.msg, "settings.json")
          /\ (list_files(storage) # <<>> /\ SettingsWellFormed
                  /\ ~download_file(storage, "system.md").present) =>
                accesses = <<"list_files", "settings.json", "system.md">>
          /\ loader_pc \in {"loaded", "built"} <=> accesses = AllAccesses

\* A construction stopped at settings.json over a directory that also lacks
\* system.md and holds user.md and a file of another name.
C26_Witness ==
    /\ loader_pc = "failed"
    /\ storage.kind = "FileSystemProvider"
    /\ storage.other
    /\ Mentions(list_files(storage), "notes.txt")
    /\ Mentions(list_files(storage), "user.md")
    /\ ~download_file(storage, "settings.json").present
    /\ ~download_file(storage, "system.md").present
    /\ accesses = <<"list_files", "settings.json">>
    /\ Mentions(loader_exc.msg, "settings.json")

(***************************************************************************)
(* Properties of the tool mode of a client                                 *)
(***************************************************************************)
\* A tool class is constructed from the arguments and its execute returns.
ValidArguments(cls, arguments) ==
    /\ Instantiate(cls, arguments).ok
    /\ Execute(cls, Instantiate(cls, arguments).inst).ok

\* The Prompt of the client declares a tool of the name.
Declared(name) == _prompt.tools.present /\ Mentions(_prompt.tools.list, name)

\* C27: in tool mode the registry of the process alone decides what is
\* executed, not the tool list of the Prompt: a call that names a registered
\* tool is executed (status success for valid arguments) whether the Prompt
\* declares the tool or not, and a call that names a tool the Prompt declares
\* but the registry does not hold ends with status error.
C27_RegistryGovernsExecution ==
    ToolMode =>
        \A i \in DOMAIN tool_call_responses :
            LET req == tool_requests[i]
                rsp == tool_call_responses[i]
            IN  /\ (Registered(_tools, req.function_name)
                        /\ ValidArguments(req.function_name, req.arguments)) =>
                      /\ rsp.status = "success"
                      /\ i \in {executed[k] : k \in DOMAIN executed}
                /\ ~Registered(_tools, req.function_name) =>
                      /\ rsp.status = "error"
                      /\ i \notin {executed[k] : k \in DOMAIN executed}

\* A batch in which a registered tool the Prompt does not declare succeeded and
\* a declared tool that is not registered gave an error.
C27_Witness ==
    /\ RunToolsReturned
    /\ \E i \in DOMAIN tool_call_responses :
          /\ ~Declared(tool_requests[i].function_name)
          /\ Registered(_tools, tool_requests[i].function_name)
          /\ tool_call_responses[i].status = "success"
    /\ \E i \in DOMAIN tool_call_responses :
          /\ Declared(tool_requests[i].function_name)
          /\ ~Registered(_tools, tool_requests[i].function_name)
          /\ tool_call_responses[i].status = "error"

\* The messages of the second call of an invocation in tool mode: the base
\* messages, the reply to its first call and its own tool results.
OwnConversation ==
    SystemThenUser
    \o <<replies[1]>>
    \o [i \in DOMAIN tool_call_responses |->
          [role |-> "tool", content |-> Str(tool_call_responses[i].result),
           tool_call_id |-> tool_call_responses[i].tool_call_id, tool_calls |-> Absent]]

\* What each call of the invocation under way was given as messages.
EachInvocationStartsAfresh ==
    /\ pc = "idle" => (calls = <<>> /\ messages = <<>>)
    /\ Len(calls) <= 2
    /\ Len(calls) >= 1 => calls[1].messages = SystemThenUser
    /\ Len(calls) = 2 => (ToolMode /\ calls[2].messages = OwnConversation)

\* C28: a ModelClient keeps no conversation between invocations: the first
\* transport call of every invocation, text, structured or streamed, is given
\* exactly the two base messages, what an earlier invocation appended to its
\* messages is in no message list of a later one, and the Prompt of the client
\* never changes.
C28_NoConversationState ==
    /\ []EachInvocationStartsAfresh
    /\ [][_prompt' = _prompt]_vars

\* A second call in tool mode was made after an earlier invocation had
\* appended an assistant message and tool results to its messages.
C28_Witness ==
    /\ conversed
    /\ ToolMode
    /\ pc = "done"
    /\ Len(calls) = 2
    /\ Len(tool_call_responses) >= 1
    /\ calls[1].messages = SystemThenUser
    /\ Len(calls[2].messages) = 3 + Len(tool_call_responses)

\* C29: the substitution is a single pass: a text inserted as the value of a
\* key is not substituted itself, so that a token {k} of another key k inside
\* an inserted value stays as it is, wherever the tokens stand in the
\* template.  The texts with a "{" that opens no token are left aside.
C29_SinglePass ==
    (loader_pc = "built" /\ Truthy(placeholders)) =>
        /\ NoStrayBrace(storage._system_prompt) =>
              _system_prompt
                  = EveryTokenReplaced(storage._system_prompt, placeholders.list, 1)
        /\ NoStrayBrace(storage._user_prompt) =>
              _user_prompt = EveryTokenReplaced(storage._user_prompt, placeholders.list, 1)

(***************************************************************************)
(* Properties of the order of the executions of run_tools                  *)
(***************************************************************************)
\* The name of request i is registered and its arguments pass the validation
\* of the fields of the tool of that name.
ResolvedAndValidated(i) ==
    /\ Registered(_tools, tool_requests[i].function_name)
    /\ NumErrors(ModelFields(tool_requests[i].function_name),
                 tool_requests[i].arguments) = 0

\* The positions executed so far: ascending, each once, each resolved and
\* validated, none ahead of the responses to the requests before it; no
\* request whose resolution or validation failed was executed.
ExecutedInOrder ==
    /\ \A k \in DOMAIN executed :
          /\ executed[k] \in DOMAIN tool_requests
          /\ \A l \in DOMAIN executed : k < l => executed[k] < executed[l]
          /\ ResolvedAndValidated(executed[k])
          /\ Len(tool_call_responses) >= executed[k] - 1
    /\ \A i \in DOMAIN tool_call_responses :
          ~ResolvedAndValidated(i) => \A k \in DOMAIN executed : executed[k] # i

\* An execution starts for the request the loop stands at, after its tool
\* class was resolved and constructed, when exactly the requests before it
\* have their responses.
ExecutionStarts ==
    (executed' # executed /\ pc \in {"get_tool", "instantiate", "execute", "return", "except"}) =>
        /\ pc = "execute"
        /\ executed' = Append(executed, idx)
        /\ Len(tool_call_responses) = idx - 1
        /\ Len(tool_call_responses') = idx - 1
        /\ ResolvedAndValidated(idx)

\* C30: during run_tools the tools are executed one at a time in the order of
\* the requests: the tool of request i is executed at most once, only after
\* its name was resolved and its arguments were validated, never when either
\* failed, and never before every request before i has its response.
C30_SequentialExecution ==
    /\ []ExecutedInOrder
    /\ [][ExecutionStarts]_vars

\* The second of two requests is being executed after the first, which failed
\* its validation and was not executed, got its response.
C30_Witness ==
    /\ pc = "return"
    /\ idx = 2
    /\ executed = <<2>>
    /\ Len(tool_call_responses) = 1
    /\ tool_call_responses[1].status = "error"
    /\ Registered(_tools, tool_requests[1].function_name)
    /\ ~ResolvedAndValidated(1)

====
